---- MODULE Spec2Model ----
(***************************************************************************)
(* Model of the demonstration services of jenginsu/ssot-project:           *)
(*   - the generated login API                                             *)
(*     (recommend_base/base/generated/login/api/login_api.py) together     *)
(*     with its test file (.../login/test/login_test.py);                  *)
(*   - the JWT protected /recommend endpoint (jwt_test/fastapi_server.py). *)
(*                                                                         *)
(* Strings that the code inspects character by character (passwords,       *)
(* emails, header values) are tuples of one-character strings.             *)
(***************************************************************************)
EXTENDS Integers, Sequences, FiniteSets, TLC

VARIABLES
    members,        \* table ssot.tbl_member: user_id -> row
    membersBefore,  \* history: the table as it was before the last request
    lastReq,        \* history: the last login request
    lastResp,       \* the response to the last login request
    wrongStreak,    \* history: per account, wrong-password requests since
                    \* the last successful login (or since the start)
    suitePc,        \* number of requests of login_test.py already sent
    suiteLog,       \* responses received by login_test.py, in order
    recReq,         \* history: the last request to POST /recommend
    recResp,        \* the response to the last request to POST /recommend
    askResp,        \* the response of the last GET /ask of flask_client.py
    exReq,          \* the generation response and language given to the extractors
    exOut,          \* what extract_code_block and extract_block returned for it
    genIn,          \* generate_all.py: the Feature Index and the files of earlier runs
    genFs,          \* the files and directories under GENERATED_DIR
    genRun,         \* the position of the running generate_all.py
    genLog,         \* history: the pairs entered, the generation calls, the files written
    raceRow,        \* concurrent logins: the row of the account in tbl_member
    raceProc,       \* concurrent logins: where each request in flight stands
    raceLog,        \* history: password checks made, commits, the last commit
    ssotIn,         \* generate_ssot_from_feature_spec.py: the key, the feature spec, earlier files
    ssotFs,         \* the files under auto_features/<feature_id>/
    ssotRun,        \* the position of the running script
    ssotLog,        \* history: the generation calls and the kinds written
    uiOut           \* login_ui.py: what the last POST /login gave the browser

loginVars == <<members, membersBefore, lastReq, lastResp, wrongStreak, suitePc, suiteLog>>
recVars == <<recReq, recResp, askResp>>
extVars == <<exReq, exOut>>
genVars == <<genIn, genFs, genRun, genLog>>
raceVars == <<raceRow, raceProc, raceLog>>
ssotVars == <<ssotIn, ssotFs, ssotRun, ssotLog>>
uiVars == <<uiOut>>
sideVars == <<raceVars, ssotVars, uiVars>>
toolVars == <<extVars, genVars>>
vars == <<loginVars, recVars, toolVars, sideVars>>

-----------------------------------------------------------------------------
(* Bounds of the model.                                                    *)

\* datetime.utcnow() returns one of 1..MaxTime
MaxTime == 2
\* wrongStreak saturates at MaxStreak ("MaxStreak or more")
MaxStreak == 7

Times == 1..MaxTime

Min(a, b) == IF a < b THEN a ELSE b

-----------------------------------------------------------------------------
(* Constants of login_api.py.                                              *)

MAX_FAIL_COUNT == 5
FAIL_ERROR_CODE == "LOGIN_FAILED"
LOCK_ERROR_CODE == "ACCOUNT_LOCKED"
MISSING_REQUIRED_FIELD == "MISSING_REQUIRED_FIELD"
INVALID_EMAIL_FORMAT == "INVALID_EMAIL_FORMAT"
INVALID_PASSWORD_FORMAT == "INVALID_PASSWORD_FORMAT"
JWT_SECRET_KEY == "your-secure-secret-key"
JWT_EXPIRE_SECONDS == 3600
\* len(v) > 255 in validate_email, len(v) < 8 in validate_password
MaxEmailLen == 255
MinPasswordLen == 8
\* a nullable column holding no value
NULL == 0

-----------------------------------------------------------------------------
(* Character classes of the password pattern                               *)
(*   (?=.*[A-Z])(?=.*[a-z])(?=.*\d)(?=.*[!@#$%^&*]).{8,}                   *)

UpperChars == {"A","B","C","D","E","F","G","H","I","J","K","L","M",
               "N","O","P","Q","R","S","T","U","V","W","X","Y","Z"}
LowerChars == {"a","b","c","d","e","f","g","h","i","j","k","l","m",
               "n","o","p","q","r","s","t","u","v","w","x","y","z"}
DigitChars == {"0","1","2","3","4","5","6","7","8","9"}
SpecialChars == {"!","@","#","$","%","^","&","*"}
Newline == "\n"

HasCharIn(v, S) == \E i \in 1..Len(v) : v[i] \in S

\* pattern.fullmatch(v): the four lookaheads, then .{8,} over the whole
\* string ("." matches anything but a newline)
PasswordPatternFullmatch(v) ==
    /\ HasCharIn(v, UpperChars)
    /\ HasCharIn(v, LowerChars)
    /\ HasCharIn(v, DigitChars)
    /\ HasCharIn(v, SpecialChars)
    /\ Len(v) >= MinPasswordLen
    /\ \A i \in 1..Len(v) : v[i] # Newline

-----------------------------------------------------------------------------
(* Request bodies.  A JSON field is absent, null or a string.              *)

Absent == [kind |-> "absent", val |-> <<>>]
JsonNull == [kind |-> "null", val |-> <<>>]
Str(s) == [kind |-> "str", val |-> s]

\* the inputs of login_test.py and of generated_ori/login/test/login_test.py
User1Email == <<"u","s","e","r","1","@","e","x","a","m","p","l","e",".","c","o","m">>
User2Email == <<"u","s","e","r","2","@","e","x","a","m","p","l","e",".","c","o","m">>
NotFoundEmail == <<"n","o","t","f","o","u","n","d","@","e","x","a","m","p","l","e",".","c","o","m">>
InvalidEmail == <<"i","n","v","a","l","i","d","-","e","m","a","i","l","-","f","o","r","m","a","t">>

PassAtWord1 == <<"P","a","s","s","@","w","o","r","d","1">>
WrongPass1 == <<"W","r","o","n","g","P","a","s","s","!","1">>
ShortPassword == <<"s","h","o","r","t">>
NoSpecialPassword == <<"A","b","c","d","1","2","3","4">>
NoUpperPassword == <<"p","a","s","s","@","w","o","r","d","1">>
NoLowerPassword == <<"P","A","S","S","@","W","O","R","D","1">>
NoDigitPassword == <<"P","a","s","s","@","w","o","r","d","!">>
ShortComplexPassword == <<"A","b","c","1","!">>

EmailInputs == {Absent, Str(User1Email), Str(User2Email),
                Str(NotFoundEmail), Str(InvalidEmail)}
PasswordInputs == {Absent, Str(PassAtWord1), Str(WrongPass1), Str(ShortPassword)}
\* passwords that miss one requirement of the pattern each, and a null
MalformedPasswordInputs == {JsonNull, Str(NoSpecialPassword), Str(NoUpperPassword),
                            Str(NoLowerPassword), Str(NoDigitPassword),
                            Str(ShortComplexPassword)}

Body(e, p) == [email |-> e, password |-> p]
\* the bodies clients send: every email with the main passwords, and the
\* registered email with each malformed password
Bodies == {Body(e, p) : e \in EmailInputs, p \in PasswordInputs}
          \cup {Body(Str(User1Email), p) : p \in MalformedPasswordInputs}
          \cup {Body(JsonNull, Str(PassAtWord1))}

-----------------------------------------------------------------------------
(* LoginRequest: field validation.                                         *)

Positions(v, c) == {i \in 1..Len(v) : v[i] = c}

\* EmailStr.validate(v), taken as the address syntax check the call names:
\* one "@", a non-empty local part, a dotted domain.  (A pydantic release
\* whose EmailStr has no `validate` attribute makes the call raise inside
\* the try block, and then every email is INVALID_EMAIL_FORMAT.)
EmailSyntaxOK(v) ==
    /\ Cardinality(Positions(v, "@")) = 1
    /\ LET at == CHOOSE i \in Positions(v, "@") : TRUE
           dots == {i \in Positions(v, ".") : i > at}
       IN /\ at > 1
          /\ dots # {}
          /\ \A i \in dots : i > at + 1 /\ i < Len(v)

\* validate_email on a string value: "" when accepted, else the message of
\* the ValueError
validate_email(v) ==
    IF Len(v) > MaxEmailLen THEN INVALID_EMAIL_FORMAT
    ELSE IF ~EmailSyntaxOK(v) THEN INVALID_EMAIL_FORMAT
    ELSE ""

\* validate_password on a string value
validate_password(v) ==
    IF Len(v) < MinPasswordLen THEN INVALID_PASSWORD_FORMAT
    ELSE IF ~PasswordPatternFullmatch(v) THEN INVALID_PASSWORD_FORMAT
    ELSE ""

\* The errors pydantic reports for one field of LoginRequest.  The field is
\* declared `str` and required: an absent key is reported as "missing" and
\* a null as "string_type", both before the field validator runs, so the
\* `v is None` branches of the validators are never taken.  A ValueError of
\* the validator is reported as "value_error" carrying its message
\* (`verdict` is the outcome of the validator on a string value).
FieldErrors(field, verdict) ==
    IF field.kind = "absent" THEN {[type |-> "missing", msg |-> "Field required"]}
    ELSE IF field.kind = "null" THEN {[type |-> "string_type", msg |-> "Input should be a valid string"]}
    ELSE IF verdict # "" THEN {[type |-> "value_error", msg |-> verdict]}
    ELSE {}

EmailErrors(body) == FieldErrors(body.email, validate_email(body.email.val))
PasswordErrors(body) == FieldErrors(body.password, validate_password(body.password.val))

\* the validation of every body clients send, tabulated
ValidationErrors == [b \in Bodies |-> EmailErrors(b) \cup PasswordErrors(b)]

\* LoginRequest(**body) succeeds
WellFormed(body) == ValidationErrors[body] = {}

-----------------------------------------------------------------------------
(* Table ssot.tbl_member and the responses of the login API.               *)

UserIds == {"U1", "U2"}

\* bcrypt: the stored hash of a password, and bcrypt.checkpw
Hash(pw) == <<"$2b$", pw>>
\* mutation: any password is accepted
checkpw_Any(password, stored_hash) == TRUE
checkpw(password, stored_hash) == Hash(password) = stored_hash

\* the registered accounts (precondition of login_test.py: user1@example.com
\* with password Pass@word1)
AccountEmail == [u \in UserIds |-> IF u = "U1" THEN User1Email ELSE User2Email]
AccountPassword == [u \in UserIds |-> IF u = "U1" THEN PassAtWord1 ELSE WrongPass1]

\* a row of Member as inserted: fail_count default 0, is_locked default False
NewMember(u) ==
    [email |-> AccountEmail[u], password_hash |-> Hash(AccountPassword[u]),
     fail_count |-> 0, is_locked |-> FALSE, locked_at |-> NULL,
     created_at |-> 1, updated_at |-> 1]

NoToken == [sub |-> "", iat |-> 0, exp |-> 0, key |-> ""]

\* a response: status code and the keys of its JSON body the clients read
\* (errorCode "" and accessToken NoToken stand for an absent key)
Response(status, errorCode, accessToken, userId) ==
    [status |-> status, errorCode |-> errorCode,
     accessToken |-> accessToken, userId |-> userId]

NoResponse == Response(0, "", NoToken, "")

\* create_access_token: sub, iat and exp = now + JWT_EXPIRE_SECONDS, signed
\* with JWT_SECRET_KEY
create_access_token(user_id, now) ==
    [sub |-> user_id, iat |-> now, exp |-> now + JWT_EXPIRE_SECONDS,
     key |-> JWT_SECRET_KEY]

\* http_exception_handler for HTTPException(status_code, {"errorCode": code})
http_exception_handler(status_code, code) ==
    IF status_code \in {400, 401}
    THEN Response(status_code, code, NoToken, "")
    ELSE Response(status_code, "UNKNOWN_ERROR", NoToken, "")

\* A body that fails LoginRequest validation never reaches login_api:
\* FastAPI raises RequestValidationError, the application registers handlers
\* for HTTPException, ValueError and Exception only, so FastAPI's own
\* handler answers 422 with {"detail": [...]} (no errorCode key).  The
\* ValueError raised inside a field validator is wrapped by pydantic and is
\* not seen by value_error_handler.
request_validation_response == Response(422, "", NoToken, "")

-----------------------------------------------------------------------------
(* login_api                                                               *)

\* mutation: an email that matches no row falls back to the first row
FindMember_Fallback(m, email) ==
    IF {u \in UserIds : m[u].email = email} = {} THEN {"U1"}
    ELSE {u \in UserIds : m[u].email = email}
\* select(Member).where(Member.email == req.email); email is unique
FindMember(m, email) == {u \in UserIds : m[u].email = email}

\* mutation: the lock flag is not consulted
IsLocked_Never(member) == FALSE
\* if member.is_locked
IsLocked(member) == member.is_locked

\* mutation: > instead of >=
ReachedThreshold_Gt(fail_count) == fail_count > MAX_FAIL_COUNT
\* if member.fail_count >= MAX_FAIL_COUNT
ReachedThreshold(fail_count) == fail_count >= MAX_FAIL_COUNT

\* mutation: the failure is not counted
OnPasswordMismatch_NoCount(member, now) == member
\* mutation: the account is locked without locked_at
OnPasswordMismatch_NoLockedAt(member, now) ==
    LET counted == [member EXCEPT !.fail_count = @ + 1]
    IN IF ReachedThreshold(counted.fail_count)
       THEN [counted EXCEPT !.is_locked = TRUE]
       ELSE counted
\* password mismatch: the row after the increment (and the lock)
OnPasswordMismatch(member, now) ==
    LET counted == [member EXCEPT !.fail_count = @ + 1]
    IN IF ReachedThreshold(counted.fail_count)
       THEN [counted EXCEPT !.is_locked = TRUE, !.locked_at = now]
       ELSE counted

\* mutation: the counter is kept
OnPasswordCorrect_NoReset(member, now) == member
\* password correct: the row after the reset
OnPasswordCorrect(member, now) ==
    IF member.fail_count # 0 \/ member.is_locked
    THEN [member EXCEPT !.fail_count = 0, !.is_locked = FALSE,
                        !.locked_at = NULL, !.updated_at = now]
    ELSE member

\* mutation: an unknown email is answered like a locked account
NotFoundResponse_Locked == http_exception_handler(401, LOCK_ERROR_CODE)
\* the response to an unknown email
NotFoundResponse == http_exception_handler(401, FAIL_ERROR_CODE)

\* the response to a request for a locked account
LockedResponse == http_exception_handler(401, LOCK_ERROR_CODE)

\* the response after a password mismatch, from the row after the update
MismatchResponse(updated) ==
    IF ReachedThreshold(updated.fail_count)
    THEN http_exception_handler(401, LOCK_ERROR_CODE)
    ELSE http_exception_handler(401, FAIL_ERROR_CODE)

\* LoginResponse(accessToken=..., userId=member.user_id)
SuccessResponse(u, now) == Response(200, "", create_access_token(u, now), u)

\* the handler on a validated request: the new table and the response
login_api(m, email, password, now) ==
    LET found == FindMember(m, email)
    IN IF found = {}
       THEN [members |-> m, resp |-> NotFoundResponse]
       ELSE LET u == CHOOSE x \in found : TRUE
                member == m[u]
            IN IF IsLocked(member)
               THEN [members |-> m, resp |-> LockedResponse]
               ELSE IF ~checkpw(password, member.password_hash)
               THEN LET updated == OnPasswordMismatch(member, now)
                    IN [members |-> [m EXCEPT ![u] = updated],
                        resp |-> MismatchResponse(updated)]
               ELSE [members |-> [m EXCEPT ![u] = OnPasswordCorrect(member, now)],
                     resp |-> SuccessResponse(u, now)]

\* POST /api/login_api: body validation, then the handler
PostLogin(m, body, now) ==
    IF ~WellFormed(body)
    THEN [members |-> m, resp |-> request_validation_response]
    ELSE login_api(m, body.email.val, body.password.val, now)

-----------------------------------------------------------------------------
(* login_test.py: the requests of TC_LOGIN_001 .. TC_LOGIN_009 in file      *)
(* order with the status code and errorCode each test asserts (TC_LOGIN_001 *)
(* asserts no errorCode).                                                   *)

TestRequest(tc, body, status, errorCode) ==
    [tc |-> tc, body |-> body, status |-> status, errorCode |-> errorCode]

Suite ==
    << TestRequest(1, Body(Str(User1Email), Str(PassAtWord1)), 200, ""),
       TestRequest(2, Body(Str(User1Email), Str(WrongPass1)), 401, FAIL_ERROR_CODE),
       TestRequest(3, Body(Str(User1Email), Str(ShortPassword)), 400, INVALID_PASSWORD_FORMAT),
       TestRequest(4, Body(Str(User1Email), Str(WrongPass1)), 401, FAIL_ERROR_CODE),
       TestRequest(4, Body(Str(User1Email), Str(WrongPass1)), 401, FAIL_ERROR_CODE),
       TestRequest(4, Body(Str(User1Email), Str(WrongPass1)), 401, FAIL_ERROR_CODE),
       TestRequest(4, Body(Str(User1Email), Str(WrongPass1)), 401, FAIL_ERROR_CODE),
       TestRequest(4, Body(Str(User1Email), Str(WrongPass1)), 401, LOCK_ERROR_CODE),
       TestRequest(5, Body(Str(User1Email), Str(PassAtWord1)), 401, LOCK_ERROR_CODE),
       TestRequest(6, Body(Str(InvalidEmail), Str(PassAtWord1)), 400, INVALID_EMAIL_FORMAT),
       TestRequest(7, Body(Absent, Str(PassAtWord1)), 400, MISSING_REQUIRED_FIELD),
       TestRequest(8, Body(Str(User1Email), Absent), 400, MISSING_REQUIRED_FIELD),
       TestRequest(9, Body(Str(NotFoundEmail), Str(PassAtWord1)), 401, FAIL_ERROR_CODE) >>

-----------------------------------------------------------------------------
(* The login service as a state machine.                                   *)

NoRequest == [body |-> Body(Absent, Absent), sent |-> FALSE]

\* the account a well-formed body names, as a set (empty: unknown email)
Target(body) ==
    IF WellFormed(body) THEN {u \in UserIds : AccountEmail[u] = body.email.val}
    ELSE {}

\* the body carries a well-formed password that is not the one of account u
WrongPasswordFor(body, u) ==
    /\ u \in Target(body)
    /\ body.password.val # AccountPassword[u]

\* history: count the wrong-password requests of each account since its last
\* successful login
NextStreak(streak, body, resp) ==
    [u \in UserIds |->
        IF u \notin Target(body) THEN streak[u]
        ELSE IF WrongPasswordFor(body, u) THEN Min(streak[u] + 1, MaxStreak)
        ELSE IF resp.status = 200 THEN 0
        ELSE streak[u]]

\* one request is received, handled and answered
Serve(body, now) ==
    LET out == PostLogin(members, body, now)
    IN /\ members' = out.members
       /\ membersBefore' = members
       /\ lastReq' = [body |-> body, sent |-> TRUE]
       /\ lastResp' = out.resp
       /\ wrongStreak' = NextStreak(wrongStreak, body, out.resp)

LoginInit ==
    /\ members = [u \in UserIds |-> NewMember(u)]
    /\ membersBefore = members
    /\ lastReq = NoRequest
    /\ lastResp = NoResponse
    /\ wrongStreak = [u \in UserIds |-> 0]
    /\ suitePc = 0
    /\ suiteLog = <<>>

\* any client posts any body, while the test file is not running
Login ==
    /\ suitePc = 0
    /\ \E body \in Bodies, now \in Times : Serve(body, now)
    /\ UNCHANGED <<suitePc, suiteLog>>
    /\ UNCHANGED <<recVars, toolVars, sideVars>>

\* the precondition of login_test.py
SuitePrecondition ==
    /\ members["U1"].fail_count = 0
    /\ ~members["U1"].is_locked
    /\ members["U1"].password_hash = Hash(PassAtWord1)

\* login_test.py sends its next request; it starts from its precondition and
\* then runs alone, in file order
RunTest ==
    /\ suitePc < Len(Suite)
    /\ suitePc = 0 => SuitePrecondition
    /\ \E now \in Times : Serve(Suite[suitePc + 1].body, now)
    /\ suitePc' = suitePc + 1
    /\ suiteLog' = Append(suiteLog, lastResp')
    /\ UNCHANGED <<recVars, toolVars, sideVars>>

-----------------------------------------------------------------------------
(* jwt_test/fastapi_server.py: tokens and the Authorization header.        *)

\* config_auth.SECRET_KEY and config_auth.ALGORITHM
SECRET_KEY == "SECRET_KEY"
ALGORITHM == "HS256"

\* QuestionRequest.question: max_length, min_length
MaxQuestionLen == 300
MinQuestionLen == 1

\* A JWT: its claims (exp 0: no exp claim; sub "": no usable sub claim), the
\* key and algorithm of its signature; a string that is no JWT at all has
\* wellFormed FALSE.
Jwt(sub, exp, key, alg) ==
    [sub |-> sub, exp |-> exp, key |-> key, alg |-> alg, wellFormed |-> TRUE]
GarbageToken == [sub |-> "", exp |-> 0, key |-> "", alg |-> "", wellFormed |-> FALSE]

\* flask_client.create_access_token: payload {"sub": mbr_id}, no exp
flask_create_access_token(mbr_id) == Jwt(mbr_id, 0, SECRET_KEY, ALGORITHM)

\* the tokens clients present
Tokens ==
    {flask_create_access_token("user123"), GarbageToken,
     Jwt("", 0, SECRET_KEY, ALGORITHM),
     Jwt("user123", 0, "other-key", ALGORITHM),
     Jwt("user123", 0, SECRET_KEY, "none"),
     Jwt("mallory", 1, "other-key", ALGORITHM)}
    \cup {Jwt("user456", e, SECRET_KEY, ALGORITHM) : e \in 1..(MaxTime + 1)}

\* mutation: exp is not compared with now
jwt_decode_NoExp(token, key, algorithm, now) ==
    IF ~token.wellFormed THEN [error |-> "InvalidTokenError", sub |-> ""]
    ELSE IF token.alg # algorithm THEN [error |-> "InvalidTokenError", sub |-> ""]
    ELSE IF token.key # key THEN [error |-> "InvalidTokenError", sub |-> ""]
    ELSE [error |-> "", sub |-> token.sub]
\* jwt.decode(token, key, algorithms=[algorithm]) at time now: the payload,
\* or the exception raised.  The token is parsed, then its algorithm and
\* signature are verified, then exp (when present) is compared with now.
jwt_decode(token, key, algorithm, now) ==
    IF ~token.wellFormed THEN [error |-> "InvalidTokenError", sub |-> ""]
    ELSE IF token.alg # algorithm THEN [error |-> "InvalidTokenError", sub |-> ""]
    ELSE IF token.key # key THEN [error |-> "InvalidTokenError", sub |-> ""]
    ELSE IF token.exp # 0 /\ token.exp <= now THEN [error |-> "ExpiredSignatureError", sub |-> ""]
    ELSE [error |-> "", sub |-> token.sub]

\* An Authorization header value is the text `scheme` followed by the
\* encoding of `token` (an encoded JWT contains no blank).
Header(scheme, token) == [kind |-> "str", scheme |-> scheme, token |-> token]
NoHeader == [kind |-> "absent", scheme |-> <<>>, token |-> GarbageToken]

BearerSp == <<"B","e","a","r","e","r"," ">>
ValidToken == flask_create_access_token("user123")

Headers ==
    {NoHeader}
    \cup {Header(BearerSp, t) : t \in Tokens}
    \cup {Header(BearerSp \o <<" ">>, ValidToken),
          Header(BearerSp \o <<"x"," ">>, ValidToken),
          Header(<<"b","e","a","r","e","r"," ">>, ValidToken),
          Header(<<"B","e","a","r","e","r">>, ValidToken),
          Header(<<"B","a","s","i","c"," ">>, ValidToken),
          Header(<<>>, ValidToken)}

\* authorization.startswith("Bearer ")
StartsWithBearer(h) ==
    /\ Len(h.scheme) >= Len(BearerSp)
    /\ SubSeq(h.scheme, 1, Len(BearerSp)) = BearerSp

\* authorization.split(" ", 1)[1].strip(): what follows the first blank,
\* trimmed; text other than blanks in front of the token makes it no JWT
ExtractToken(h) ==
    LET rest == SubSeq(h.scheme, Len(BearerSp) + 1, Len(h.scheme))
    IN IF \A i \in 1..Len(rest) : rest[i] = " " THEN h.token ELSE GarbageToken

\* get_current_user on a present header: the HTTPException raised (status
\* 401 and detail) or the current user
get_current_user(h, now) ==
    IF ~StartsWithBearer(h)
    THEN [status |-> 401, detail |-> "Invalid Authorization header", mbr_id |-> ""]
    ELSE LET payload == jwt_decode(ExtractToken(h), SECRET_KEY, ALGORITHM, now)
         IN IF payload.error = "ExpiredSignatureError"
            THEN [status |-> 401, detail |-> "Token expired", mbr_id |-> ""]
            ELSE IF payload.error # ""
            THEN [status |-> 401, detail |-> "Invalid token", mbr_id |-> ""]
            ELSE IF payload.sub = ""
            THEN [status |-> 401, detail |-> "Invalid token payload", mbr_id |-> ""]
            ELSE [status |-> 200, detail |-> "", mbr_id |-> payload.sub]

-----------------------------------------------------------------------------
(* jwt_test/fastapi_server.py: the question.                                *)

\* two characters SANY cannot write inside a string
DoubleQuote == "DQUOTE"
Backquote == "BACKQUOTE"

\* the Hangul characters of the questions below, written as code points (a
\* part of the ranges U+3131..U+314E and U+AC00..U+D7A3 of
\* SAFE_QUESTION_REGEX)
HangulChars == {"U+D0A4","U+BCF4","U+B4DC","U+CD94","U+CC9C","U+D574","U+C918","U+D14C","U+C774","U+BE14"}
WhitespaceChars == {" ", "\t", "\n"}
PunctuationChars == {".", ",", "!", "?", "(", ")", "[", "]", "-", "_", ":",
                     "+", "/", "'", DoubleQuote, "@", "#", "&"}

\* the character class of SAFE_QUESTION_REGEX
SafeChars == HangulChars \cup LowerChars \cup UpperChars \cup DigitChars
             \cup WhitespaceChars \cup PunctuationChars

\* [;&|`$]
ShellChars == {";", "&", "|", Backquote, "$"}

\* \w
WordChars == HangulChars \cup LowerChars \cup UpperChars \cup DigitChars \cup {"_"}

UpperSeq == <<"A","B","C","D","E","F","G","H","I","J","K","L","M",
              "N","O","P","Q","R","S","T","U","V","W","X","Y","Z">>
LowerSeq == <<"a","b","c","d","e","f","g","h","i","j","k","l","m",
              "n","o","p","q","r","s","t","u","v","w","x","y","z">>

\* case folding of (?i)
ToLower(c) ==
    IF c \in UpperChars
    THEN LowerSeq[CHOOSE i \in 1..Len(UpperSeq) : UpperSeq[i] = c]
    ELSE c

SqlKeywords ==
    { <<"s","e","l","e","c","t">>, <<"i","n","s","e","r","t">>,
      <<"u","p","d","a","t","e">>, <<"d","e","l","e","t","e">>,
      <<"d","r","o","p">>, <<"t","r","u","n","c","a","t","e">>,
      <<"u","n","i","o","n">>, <<"e","x","e","c">> }

\* str.strip(): without leading and trailing whitespace
RECURSIVE LStrip(_)
LStrip(q) ==
    IF q # <<>> /\ Head(q) \in WhitespaceChars THEN LStrip(Tail(q)) ELSE q
RECURSIVE RStrip(_)
RStrip(q) ==
    IF q # <<>> /\ q[Len(q)] \in WhitespaceChars
    THEN RStrip(SubSeq(q, 1, Len(q) - 1)) ELSE q
Strip(q) == RStrip(LStrip(q))

\* SAFE_QUESTION_REGEX.match(v): one or more characters of the class
SafeQuestionMatch(v) == v # <<>> /\ \A i \in 1..Len(v) : v[i] \in SafeChars

\* QuestionRequest on the question field: the validated value, or invalid
\* (strip_whitespace, min_length, max_length, then validate_question)
QuestionRequest(field) ==
    IF field.kind # "str" THEN [valid |-> FALSE, question |-> <<>>]
    ELSE LET v == Strip(field.val)
         IN IF Len(v) < MinQuestionLen \/ Len(v) > MaxQuestionLen
            THEN [valid |-> FALSE, question |-> <<>>]
            ELSE IF ~SafeQuestionMatch(v)
            THEN [valid |-> FALSE, question |-> <<>>]
            ELSE [valid |-> TRUE, question |-> v]

\* \b(keyword)\b matches at position i of q, ignoring case
KeywordAt(q, i, kw) ==
    /\ i + Len(kw) - 1 <= Len(q)
    /\ \A k \in 1..Len(kw) : ToLower(q[i + k - 1]) = kw[k]
    /\ i = 1 \/ q[i - 1] \notin WordChars
    /\ i + Len(kw) - 1 = Len(q) \/ q[i + Len(kw)] \notin WordChars

\* pattern.search(question) for some pattern of DANGEROUS_PATTERNS
detect_dangerous_pattern(q) ==
    \/ \E kw \in SqlKeywords : \E i \in 1..Len(q) : KeywordAt(q, i, kw)
    \/ \E i \in 1..Len(q) : q[i] \in ShellChars

\* sanitize_question: the characters the class accepts
sanitize_question(q) == SelectSeq(q, LAMBDA ch : ch \in SafeChars)

\* the questions clients send
Q_Keyboard == <<"U+D0A4","U+BCF4","U+B4DC"," ","U+CD94","U+CC9C","U+D574","U+C918">>
Q_Padded == <<" ","\t","h","i","!"," ","\n">>
Q_Empty == <<>>
Q_Blank == <<" "," ">>
Q_DropTable == <<"d","r","o","p"," ","t","a","b","l","e">>
Q_Dropbox == <<"d","r","o","p","b","o","x","?">>
Q_DropHangul == <<"D","R","O","P","U+D14C","U+C774","U+BE14">>
Q_Union == <<"1"," ","U","n","i","o","n",",","2">>
Q_RnD == <<"R","&","D">>
Q_Semicolon == <<"a",";","b">>
Q_Dollar == <<"$","H","O","M","E">>
Q_Long == [i \in 1..(MaxQuestionLen + 1) |-> "a"]

QuestionInputs ==
    {Absent} \cup {Str(q) : q \in {Q_Keyboard, Q_Padded, Q_Empty, Q_Blank,
                                   Q_DropTable, Q_Dropbox, Q_DropHangul, Q_Union,
                                   Q_RnD, Q_Semicolon, Q_Dollar, Q_Long}}

\* the validation of every question clients send, tabulated
ValidatedQuestion == [f \in QuestionInputs |-> QuestionRequest(f)]

-----------------------------------------------------------------------------
(* POST /recommend                                                         *)

RecResponse(status, detail, mbr_id, question, answer) ==
    [status |-> status, detail |-> detail, mbr_id |-> mbr_id,
     question |-> question, answer |-> answer]

NoRecResponse == RecResponse(0, "", "", <<>>, <<>>)

\* FastAPI's answer to a request that fails validation (a required header
\* or body field is missing or invalid): the application registers a handler
\* for Exception only
RecValidationResponse == RecResponse(422, "validation error", "", <<>>, <<>>)

\* authorization: str = Header(...): the header is required, a request
\* without it fails validation and get_current_user is not called
MissingHeaderResponse == RecValidationResponse

\* mutation: detect_dangerous_pattern is not called
recommend_NoDetect(question_raw, mbr_id) ==
    LET question_safe == sanitize_question(question_raw)
    IN RecResponse(200, "", mbr_id, question_safe,
                   <<"[mbr_id=", mbr_id, "]", question_safe>>)
\* recommend(body, user) on a validated question and an authenticated user
recommend(question_raw, mbr_id) ==
    IF detect_dangerous_pattern(question_raw)
    THEN RecResponse(400, "dangerous pattern", "", <<>>, <<>>)
    ELSE LET question_safe == sanitize_question(question_raw)
         IN RecResponse(200, "", mbr_id, question_safe,
                        <<"[mbr_id=", mbr_id, "]", question_safe>>)

\* POST /recommend with a JSON object as body: the dependency
\* get_current_user is resolved first (its HTTPException ends the request),
\* then the body is validated, then the handler runs
PostRecommend(h, field, now) ==
    IF h.kind = "absent" THEN MissingHeaderResponse
    ELSE LET user == get_current_user(h, now)
         IN IF user.status # 200
            THEN RecResponse(user.status, user.detail, "", <<>>, <<>>)
            ELSE IF ~ValidatedQuestion[field].valid THEN RecValidationResponse
            ELSE recommend(ValidatedQuestion[field].question, user.mbr_id)

NoRecRequest == [header |-> NoHeader, question |-> Absent, now |-> 0, sent |-> FALSE]

\* the Response of flask_client.ask_recommend, with the token it issued
AskResponse(status, error, token) ==
    [called |-> TRUE, status |-> status, error |-> error, token |-> token]
NoAskResponse == [called |-> FALSE, status |-> 0, error |-> "", token |-> GarbageToken]

\* what requests.post meets: an answer, no connection, or no answer in time
NetworkOutcomes == {"ok", "ConnectionError", "ReadTimeout"}

RecommendInit ==
    /\ recReq = NoRecRequest
    /\ recResp = NoRecResponse
    /\ askResp = NoAskResponse

\* any client posts any header and question at any time
Recommend ==
    /\ \E h \in Headers, field \in QuestionInputs, now \in Times :
          /\ recReq' = [header |-> h, question |-> field, now |-> now, sent |-> TRUE]
          /\ recResp' = PostRecommend(h, field, now)
    /\ UNCHANGED <<loginVars, askResp, toolVars, sideVars>>

\* GET /ask: flask_client.ask_recommend issues a token for the hard-coded
\* member, posts the hard-coded question to /recommend and hands the answer
\* through; any exception of requests.post becomes a 500
Ask ==
    /\ \E now \in Times, net \in NetworkOutcomes :
          LET mbr_id == "user123"
              question == Q_Keyboard
              access_token == flask_create_access_token(mbr_id)
              h == Header(BearerSp, access_token)
              served == PostRecommend(h, Str(question), now)
          IN IF mbr_id = "" \/ question = <<>>
             THEN /\ askResp' = AskResponse(400, "mbr_id and question are required", GarbageToken)
                  /\ UNCHANGED <<recReq, recResp>>
             ELSE IF net = "ConnectionError"
             THEN /\ askResp' = AskResponse(500, net, access_token)
                  /\ UNCHANGED <<recReq, recResp>>
             ELSE /\ recReq' = [header |-> h, question |-> Str(question),
                                now |-> now, sent |-> TRUE]
                  /\ recResp' = served
                  /\ askResp' = IF net = "ok"
                                THEN AskResponse(served.status, "", access_token)
                                ELSE AskResponse(500, net, access_token)
    /\ UNCHANGED <<loginVars, toolVars, sideVars>>
-----------------------------------------------------------------------------
(* base/generate_all.py and generate_ssot_from_feature_spec.py: the         *)
(* extractors.  A text is a tuple of characters.                            *)

MaxSegs == 2

\* the smallest element of a non-empty set of integers
MinOf(S) == CHOOSE x \in S : \A y \in S : x <= y

Fence == <<Backquote, Backquote, Backquote>>
NL == <<"\n">>

\* [a-zA-Z0-9_+-]
TagChars == LowerChars \cup UpperChars \cup DigitChars \cup {"_", "+", "-"}

\* text has the characters of p from position i on
PrefixAt(text, i, p) ==
    /\ i + Len(p) - 1 <= Len(text)
    /\ \A k \in 1..Len(p) : text[i + k - 1] = p[k]

\* ``` at position i
FenceAt(text, i) == PrefixAt(text, i, Fence)

\* where a greedy [a-zA-Z0-9_+-]* that starts at j ends
TagEnd(text, j) ==
    MinOf({k \in j..(Len(text) + 1) : k = Len(text) + 1 \/ text[k] \notin TagChars})

\* where a greedy \s* that starts at j ends
SkipWs(text, j) ==
    MinOf({k \in j..(Len(text) + 1) : k = Len(text) + 1 \/ text[k] \notin WhitespaceChars})

\* the first ``` at or after k, 0 when there is none
FirstFenceFrom(text, k) ==
    LET at == {i \in k..Len(text) : FenceAt(text, i)}
    IN IF at = {} THEN 0 ELSE MinOf(at)

\* the first position at or after k where $ matches: the end of the text,
\* or the place in front of a newline that ends the text
DollarFrom(text, k) ==
    IF Len(text) >= k /\ text[Len(text)] = "\n" THEN Len(text) ELSE Len(text) + 1

\* group 1 of (.*?)(```|$) matched from k on with re.DOTALL
LazyToFenceOrEnd(text, k) ==
    LET f == FirstFenceFrom(text, k)
        d == DollarFrom(text, k)
    IN IF f # 0 /\ f <= d THEN SubSeq(text, k, f - 1) ELSE SubSeq(text, k, d - 1)

\* where the pattern of extract_code_block can start: ``` followed by the
\* escaped language, or any ``` when no language is given
OpeningsOf(text, language) ==
    {i \in 1..Len(text) : FenceAt(text, i) /\ PrefixAt(text, i + 3, language)}

\* mutation: the fallback returns the response as it is
extract_code_block_Raw(text, language) ==
    LET opens == OpeningsOf(text, language)
    IN IF opens = {} THEN text
       ELSE LET i == MinOf(opens)
                j == IF language # <<>> THEN i + 3 + Len(language)
                     ELSE TagEnd(text, i + 3)
            IN Strip(LazyToFenceOrEnd(text, SkipWs(text, j)))
\* extract_code_block(text, language); language <<>> stands for None and ""
extract_code_block(text, language) ==
    LET opens == OpeningsOf(text, language)
    IN IF opens = {} THEN Strip(text)
       ELSE LET i == MinOf(opens)
                j == IF language # <<>> THEN i + 3 + Len(language)
                     ELSE TagEnd(text, i + 3)
            IN Strip(LazyToFenceOrEnd(text, SkipWs(text, j)))

\* where ```[a-zA-Z0-9_+-]*\s*(.*?)``` can start: a ``` with another ```
\* after its tag and whitespace
ClosedOpeningsOf(text) ==
    {i \in 1..Len(text) :
        /\ FenceAt(text, i)
        /\ FirstFenceFrom(text, SkipWs(text, TagEnd(text, i + 3))) # 0}

\* extract_block(text) of generate_ssot_from_feature_spec.py
extract_block(text) ==
    LET opens == ClosedOpeningsOf(text)
    IN IF opens = {} THEN Strip(text)
       ELSE LET k == SkipWs(text, TagEnd(text, MinOf(opens) + 3))
            IN Strip(SubSeq(text, k, FirstFenceFrom(text, k) - 1))

\* A generation response is prose and fenced blocks, one after the other on
\* lines of their own; a block has a tag and a body and is closed or, as the
\* last part of a truncated response, not.
Prose(text) == [kind |-> "prose", tag |-> <<>>, body |-> text, closed |-> FALSE]
Block(tag, body, closed) == [kind |-> "block", tag |-> tag, body |-> body, closed |-> closed]

LangPython == <<"p","y","t","h","o","n">>
LangSql == <<"s","q","l">>
TagPython3 == LangPython \o <<"3">>
NoLanguage == <<>>
Languages == {LangPython, LangSql, NoLanguage}

CodeA == <<"x","=","1">>
CodeB == <<" ","y","=","2"," ">>
ProseA == <<"O","K",":">>
ProseB == <<" ","n","b","\n">>

Segments ==
    {Prose(ProseA), Prose(ProseB)}
    \cup {Block(t, b, c) : t \in {LangPython, TagPython3, LangSql, <<>>},
                           b \in {CodeA, CodeB}, c \in BOOLEAN}

\* the text of one part
RenderSeg(s) ==
    IF s.kind = "prose" THEN s.body
    ELSE Fence \o s.tag \o NL \o s.body \o (IF s.closed THEN NL \o Fence ELSE <<>>)

\* the text of a response
RECURSIVE Render(_)
Render(segs) ==
    IF segs = <<>> THEN <<>>
    ELSE IF Len(segs) = 1 THEN RenderSeg(segs[1])
    ELSE RenderSeg(segs[1]) \o NL \o Render(Tail(segs))

\* the responses given to the extractors: only the last part can be a block
\* that is not closed
Responses ==
    {segs \in UNION {[1..n -> Segments] : n \in 0..MaxSegs} :
        \A i \in 1..Len(segs) :
            (segs[i].kind = "block" /\ ~segs[i].closed) => i = Len(segs)}

NoExtraction == [codeDone |-> FALSE, code |-> <<>>, blockDone |-> FALSE, block |-> <<>>]

\* no response is under extraction
ExtractIdle ==
    /\ exReq = [segs |-> <<>>, language |-> NoLanguage]
    /\ exOut = NoExtraction

\* a response and a language, drawn for the extractors
ExtractInit ==
    /\ exReq \in [segs : Responses, language : Languages]
    /\ exOut = NoExtraction

\* generate_all.py applies extract_code_block to the response
ExtractCodeBlock ==
    /\ ~exOut.codeDone
    /\ exOut' = [exOut EXCEPT !.codeDone = TRUE,
                              !.code = extract_code_block(Render(exReq.segs), exReq.language)]
    /\ UNCHANGED <<loginVars, recVars, exReq, genVars, sideVars>>

\* generate_ssot_from_feature_spec.py applies extract_block to the response
ExtractBlock ==
    /\ ~exOut.blockDone
    /\ exOut' = [exOut EXCEPT !.blockDone = TRUE,
                              !.block = extract_block(Render(exReq.segs))]
    /\ UNCHANGED <<loginVars, recVars, exReq, genVars, sideVars>>

-----------------------------------------------------------------------------
(* base/get_feature_config.py and base/generate_all.py: the generator.      *)

\* the modes in the order generate_for_feature runs them
Modes == <<"api", "ui", "test", "db">>

\* cfg["prompts"][mode]
PromptKey == [api |-> "prompts.api", ui |-> "prompts.ui",
              test |-> "prompts.test", db |-> "prompts.db"]

\* one document a mode loads: its key in the Feature Config, the placeholder
\* it fills, whether load_json_str reads it, whether the key may be absent
Input(key, ph, json, optional) ==
    [key |-> key, ph |-> ph, json |-> json, optional |-> optional]

\* the documents of each mode, in the order the mode reads them
ModeInputs ==
    [api |-> <<Input("api_spec", "api_spec", FALSE, FALSE),
               Input("rules", "rules", FALSE, FALSE),
               Input("validation", "validation_schema", TRUE, FALSE),
               Input("db_schema", "db_schema", FALSE, FALSE),
               Input("testcases", "testcases", FALSE, FALSE)>>,
     ui |-> <<Input("design.components", "components", TRUE, TRUE),
              Input("design.flow", "flow", TRUE, TRUE),
              Input("design.tokens", "tokens", TRUE, TRUE),
              Input("rules", "rules", FALSE, FALSE),
              Input("validation", "validation_schema", TRUE, FALSE)>>,
     test |-> <<Input("api_spec", "api_spec", FALSE, FALSE),
                Input("testcases", "testcases", FALSE, FALSE),
                Input("validation", "validation_schema", TRUE, FALSE),
                Input("rules", "rules", FALSE, FALSE)>>,
     db |-> <<Input("db_schema", "db_schema", FALSE, FALSE),
              Input("rules", "rules", FALSE, FALSE)>>]

\* the keyword arguments of prompt_tpl.format in each mode
Supplied(mode) == {"feature_id"} \cup {ModeInputs[mode][i].ph : i \in 1..Len(ModeInputs[mode])}

\* A Feature Config: the keys it holds, the keys whose file does not exist,
\* the keys whose file is no JSON, and the placeholders each prompt template
\* names.
CfgKeys ==
    {"api_spec", "rules", "validation", "db_schema", "testcases",
     "design.components", "design.flow", "design.tokens",
     "prompts.api", "prompts.ui", "prompts.test", "prompts.db"}
FullCfg ==
    [keys |-> CfgKeys, nofile |-> {}, badjson |-> {},
     tpl |-> [m \in {"api", "ui", "test", "db"} |-> Supplied(m)]]
NoCfg == [keys |-> {}, nofile |-> {}, badjson |-> {},
          tpl |-> [m \in {"api", "ui", "test", "db"} |-> {}]]

\* the Feature Configs of the model: complete, without one key, without
\* the design block, with a missing file, with a broken JSON document, with
\* a template that names a placeholder its mode does not supply
CfgVariants ==
    {FullCfg}
    \cup {[FullCfg EXCEPT !.keys = CfgKeys \ {k}] : k \in CfgKeys}
    \cup {[FullCfg EXCEPT !.keys = CfgKeys \ {"design.components", "design.flow", "design.tokens"}],
          [FullCfg EXCEPT !.nofile = {"rules"}],
          [FullCfg EXCEPT !.badjson = {"validation"}],
          [FullCfg EXCEPT !.tpl["api"] = Supplied("api") \cup {"components"}],
          [FullCfg EXCEPT !.tpl["db"] = Supplied("db") \cup {"testcases"}]}

\* ssot_index.yaml: whether the file exists, and its features mapping in
\* the order of the file
Index(loadable, order, cfgs) == [loadable |-> loadable, order |-> order, cfgs |-> cfgs]
Indexes ==
    {Index(TRUE, <<"login", "signup">>, [f \in {"login", "signup"} |->
                IF f = "login" THEN c ELSE FullCfg]) : c \in CfgVariants}
    \cup {Index(TRUE, <<>>, <<>>), Index(FALSE, <<>>, <<>>)}

\* mutation: an unknown feature gets a default configuration
get_feature_config_Default(index, feature_id) ==
    IF ~index.loadable THEN [error |-> "FileNotFoundError", cfg |-> NoCfg]
    ELSE IF feature_id \notin DOMAIN index.cfgs THEN [error |-> "", cfg |-> FullCfg]
    ELSE [error |-> "", cfg |-> index.cfgs[feature_id]]
\* get_feature_config(feature_id): the configuration, or the exception of
\* load_ssot_index or of the lookup
get_feature_config(index, feature_id) ==
    IF ~index.loadable THEN [error |-> "FileNotFoundError", cfg |-> NoCfg]
    ELSE IF feature_id \notin DOMAIN index.cfgs THEN [error |-> "KeyError", cfg |-> NoCfg]
    ELSE [error |-> "", cfg |-> index.cfgs[feature_id]]

\* mutation: an absent key is read as an empty document
ReadInput_Lenient(cfg, in) ==
    IF in.key \notin cfg.keys THEN [error |-> "", value |-> <<>>]
    ELSE IF in.key \in cfg.nofile THEN [error |-> "FileNotFoundError", value |-> <<>>]
    ELSE IF in.json /\ in.key \in cfg.badjson THEN [error |-> "JSONDecodeError", value |-> <<>>]
    ELSE [error |-> "", value |-> <<IF in.json THEN "json" ELSE "text", in.key>>]
\* load_text, load_yaml_str or load_json_str of resolve_path(cfg[key]): the
\* text, or the exception; only the design documents may be absent, and are
\* then the empty string
ReadInput(cfg, in) ==
    IF in.key \notin cfg.keys
    THEN IF in.optional THEN [error |-> "", value |-> <<>>]
         ELSE [error |-> "KeyError", value |-> <<>>]
    ELSE IF in.key \in cfg.nofile THEN [error |-> "FileNotFoundError", value |-> <<>>]
    ELSE IF in.json /\ in.key \in cfg.badjson THEN [error |-> "JSONDecodeError", value |-> <<>>]
    ELSE [error |-> "", value |-> <<IF in.json THEN "json" ELSE "text", in.key>>]

\* mutation: a placeholder without a value is rendered as the empty string
RenderPrompt_Default(feature_id, cfg, mode) ==
    LET tpl == ReadInput(cfg, Input(PromptKey[mode], "", FALSE, FALSE))
        ins == ModeInputs[mode]
        reads == [i \in 1..Len(ins) |-> ReadInput(cfg, ins[i])]
        bad == {i \in 1..Len(ins) : reads[i].error # ""}
    IN IF tpl.error # "" THEN [error |-> tpl.error, prompt |-> <<>>]
       ELSE IF bad # {} THEN [error |-> reads[MinOf(bad)].error, prompt |-> <<>>]
       ELSE [error |-> "",
             prompt |-> [ph \in cfg.tpl[mode] |->
                IF ph = "feature_id" THEN <<"id", feature_id>>
                ELSE IF ph \in Supplied(mode)
                THEN reads[CHOOSE i \in 1..Len(ins) : ins[i].ph = ph].value
                ELSE <<>>]]
\* a mode up to prompt_tpl.format: the prompt (the value of every
\* placeholder the template names), or the first exception
RenderPrompt(feature_id, cfg, mode) ==
    LET tpl == ReadInput(cfg, Input(PromptKey[mode], "", FALSE, FALSE))
        ins == ModeInputs[mode]
        reads == [i \in 1..Len(ins) |-> ReadInput(cfg, ins[i])]
        bad == {i \in 1..Len(ins) : reads[i].error # ""}
        supplied == [ph \in Supplied(mode) |->
                        IF ph = "feature_id" THEN <<"id", feature_id>>
                        ELSE reads[CHOOSE i \in 1..Len(ins) : ins[i].ph = ph].value]
    IN IF tpl.error # "" THEN [error |-> tpl.error, prompt |-> <<>>]
       ELSE IF bad # {} THEN [error |-> reads[MinOf(bad)].error, prompt |-> <<>>]
       ELSE IF ~(cfg.tpl[mode] \subseteq Supplied(mode))
       THEN [error |-> "KeyError", prompt |-> <<>>]
       ELSE [error |-> "", prompt |-> [ph \in cfg.tpl[mode] |-> supplied[ph]]]

\* the language handed to extract_code_block
LanguageOf(mode) == IF mode = "db" THEN LangSql ELSE LangPython

\* mutation: the file name does not hold the feature id
OutPath_Flat(feature_id, mode) ==
    [feature |-> feature_id, kind |-> mode,
     name |-> <<"out", "_", IF mode = "db" THEN "schema" ELSE mode>>,
     ext |-> IF mode = "db" THEN "sql" ELSE "py"]
\* out_path below GENERATED_DIR: the directory <feature>/<mode> and the
\* file name <feature>_<suffix>.<ext>
OutPath(feature_id, mode) ==
    [feature |-> feature_id, kind |-> mode,
     name |-> <<feature_id, "_", IF mode = "db" THEN "schema" ELSE mode>>,
     ext |-> IF mode = "db" THEN "sql" ELSE "py"]

\* mutation: the file is opened for appending
write_text_Append(fs, path, content) ==
    [dirs |-> fs.dirs \cup {<<path.feature, path.kind>>},
     files |-> [p \in DOMAIN fs.files \cup {path} |->
                  IF p # path THEN fs.files[p]
                  ELSE IF p \in DOMAIN fs.files THEN fs.files[p] \o content
                  ELSE content]]
\* ensure_dir(out_dir) and out_path.write_text(code)
write_text(fs, path, content) ==
    [dirs |-> fs.dirs \cup {<<path.feature, path.kind>>},
     files |-> [p \in DOMAIN fs.files \cup {path} |->
                  IF p = path THEN content ELSE fs.files[p]]]

\* what call_llm returns: a response, or an exception of the client
GenReplies ==
    {Render(<<Prose(ProseA), Block(LangPython, CodeA, TRUE)>>),
     Render(<<Block(LangSql, CodeB, TRUE)>>)}
LlmOutcomes ==
    {[ok |-> TRUE, raw |-> r] : r \in GenReplies} \cup {[ok |-> FALSE, raw |-> <<>>]}

\* mutation: an exception of the client is caught and "" returned
call_llm_Swallow(out) == [error |-> "", raw |-> out.raw]
\* call_llm(prompt): one request, its content returned or its exception
\* passed on
call_llm(out) ==
    IF out.ok THEN [error |-> "", raw |-> out.raw]
    ELSE [error |-> "APIError", raw |-> <<>>]

NoFiles == [dirs |-> {}, files |-> <<>>]

\* GENERATED_DIR after an earlier run that generated every mode of every
\* feature of the index with the response raw
FilesOfRun(index, raw) ==
    LET pairs == {<<index.order[i], Modes[j]>> : i \in 1..Len(index.order), j \in 1..Len(Modes)}
    IN [dirs |-> pairs,
        files |-> [p \in {OutPath(pr[1], pr[2]) : pr \in pairs} |->
                     extract_code_block(raw, LanguageOf(p.kind))]]

\* the command lines: a feature (or none), --all, --modes
NoFeature == ""
GenArgs ==
    [feature : {"login", "signup", "ghost", NoFeature}, all : {FALSE},
     modes : {{"api"}, {"ui"}, {"db"}, {"api", "db"}, {"ui", "test"},
              {"api", "ui", "test", "db"}}]
    \cup [feature : {NoFeature, "ghost"}, all : {TRUE},
          modes : {{"api"}, {"ui"}, {"db"}, {"api", "db"}, {"ui", "test"},
                   {"api", "ui", "test", "db"}}]

NoRun == [pc |-> "idle", args |-> [feature |-> NoFeature, all |-> FALSE, modes |-> {}],
          planned |-> <<>>, features |-> <<>>, loaded |-> FALSE, cfg |-> NoCfg,
          todo |-> <<>>, error |-> ""]
NoLog == [tried |-> <<>>, calls |-> <<>>, done |-> <<>>]

\* no generator runs
GenIdle ==
    /\ genIn = [index |-> Index(FALSE, <<>>, <<>>), prior |-> <<>>, fs0 |-> NoFiles]
    /\ genFs = NoFiles
    /\ genRun = NoRun
    /\ genLog = NoLog

\* an index, and GENERATED_DIR empty or as an earlier run left it
GenInit ==
    /\ \E index \in Indexes, prior \in {<<>>} \cup {<<r>> : r \in GenReplies} :
          LET fs0 == IF prior = <<>> THEN NoFiles ELSE FilesOfRun(index, prior[1])
          IN /\ genIn = [index |-> index, prior |-> prior, fs0 |-> fs0]
             /\ genFs = fs0
    /\ genRun = NoRun
    /\ genLog = NoLog

\* the driver moves past the current mode: to the next mode of the feature,
\* to the next feature, or to the end of main
Advance(run) ==
    IF Len(run.todo) > 1 THEN [run EXCEPT !.todo = Tail(run.todo)]
    ELSE IF Len(run.features) > 1
    THEN [run EXCEPT !.features = Tail(run.features), !.loaded = FALSE,
                     !.cfg = NoCfg, !.todo = <<>>]
    ELSE [run EXCEPT !.pc = "done", !.features = <<>>, !.loaded = FALSE,
                     !.cfg = NoCfg, !.todo = <<>>]

\* mutation: the driver catches the exception and goes on
AfterError_Continue(run, error) == Advance(run)
\* an exception nobody catches ends the process
AfterError(run, error) == [run EXCEPT !.pc = "failed", !.error = error]

\* main up to its loop: the arguments are parsed and the features listed
GenStart ==
    /\ genRun.pc = "idle"
    /\ \E args \in GenArgs :
          LET started == [genRun EXCEPT !.args = args]
          IN genRun' =
               IF ~args.all /\ args.feature = NoFeature
               THEN [started EXCEPT !.pc = "failed", !.error = "SystemExit"]
               ELSE IF ~args.all
               THEN [started EXCEPT !.pc = "running", !.planned = <<args.feature>>,
                                    !.features = <<args.feature>>]
               ELSE IF ~genIn.index.loadable
               THEN [started EXCEPT !.pc = "failed", !.error = "FileNotFoundError"]
               ELSE IF genIn.index.order = <<>>
               THEN [started EXCEPT !.pc = "done"]
               ELSE [started EXCEPT !.pc = "running", !.planned = genIn.index.order,
                                    !.features = genIn.index.order]
    /\ UNCHANGED <<loginVars, recVars, extVars, genIn, genFs, genLog, sideVars>>

\* generate_for_feature up to its first mode: the configuration is looked up
GenFeature ==
    /\ genRun.pc = "running" /\ ~genRun.loaded
    /\ LET found == get_feature_config(genIn.index, Head(genRun.features))
       IN genRun' =
            IF found.error # "" THEN AfterError(genRun, found.error)
            ELSE [genRun EXCEPT !.loaded = TRUE, !.cfg = found.cfg,
                                !.todo = SelectSeq(Modes, LAMBDA m : m \in genRun.args.modes)]
    /\ UNCHANGED <<loginVars, recVars, extVars, genIn, genFs, genLog, sideVars>>

\* generate_api, generate_ui, generate_test or generate_db for the current
\* feature: inputs, prompt, call, extraction, file
GenMode ==
    /\ genRun.pc = "running" /\ genRun.loaded
    /\ LET f == Head(genRun.features)
           mode == Head(genRun.todo)
           r == RenderPrompt(f, genRun.cfg, mode)
           tried == Append(genLog.tried, <<f, mode>>)
       IN IF r.error # ""
          THEN /\ genRun' = AfterError(genRun, r.error)
               /\ genLog' = [genLog EXCEPT !.tried = tried]
               /\ UNCHANGED genFs
          ELSE \E out \in LlmOutcomes :
                 LET resp == call_llm(out)
                     call == [feature |-> f, mode |-> mode, prompt |-> r.prompt,
                              ok |-> out.ok]
                 IN
                 IF resp.error # ""
                 THEN /\ genRun' = AfterError(genRun, resp.error)
                      /\ genLog' = [genLog EXCEPT !.tried = tried,
                                                  !.calls = Append(@, call)]
                      /\ UNCHANGED genFs
                 ELSE LET code == extract_code_block(resp.raw, LanguageOf(mode))
                          path == OutPath(f, mode)
                      IN /\ genFs' = write_text(genFs, path, code)
                         /\ genLog' = [tried |-> tried,
                                       calls |-> Append(genLog.calls, call),
                                       done |-> Append(genLog.done,
                                           [feature |-> f, mode |-> mode, raw |-> resp.raw,
                                            path |-> path, content |-> code])]
                         /\ genRun' = Advance(genRun)
    /\ UNCHANGED <<loginVars, recVars, extVars, genIn, sideVars>>

-----------------------------------------------------------------------------
(* login_api under concurrent requests.  Each request runs in its own      *)
(* session: the SELECT of line 136 reads the committed row, the handler     *)
(* works on its own copy up to "await session.commit()", and the commit     *)
(* writes the columns the handler assigned.  The requests of this           *)
(* specification carry the registered email of U1 and a wrong password.     *)

\* at most MaxRaceRequests requests are sent
MaxRaceRequests == 7

\* the requests that can be in flight together
Workers == {"w1", "w2"}

RaceUser == "U1"
RacePassword == WrongPass1

\* mutation: the commit adds one to the stored counter (an atomic increment)
CommitRow_Atomic(stored, read, local) ==
    LET counted == [stored EXCEPT !.fail_count = @ + 1]
    IN IF ReachedThreshold(counted.fail_count)
       THEN [counted EXCEPT !.is_locked = TRUE, !.locked_at = local.locked_at]
       ELSE counted
\* session.commit(): UPDATE tbl_member SET <the attributes the handler
\* assigned> = <the values of its copy> WHERE user_id = ...
CommitRow(stored, read, local) ==
    [stored EXCEPT !.fail_count = local.fail_count,
                   !.is_locked = IF local.is_locked # read.is_locked
                                 THEN local.is_locked ELSE @,
                   !.locked_at = IF local.locked_at # read.locked_at
                                 THEN local.locked_at ELSE @]

NoRaceRequest == [pc |-> "idle", read |-> NewMember(RaceUser),
                  local |-> NewMember(RaceUser), resp |-> NoResponse]
NoRaceLog == [sent |-> 0, checked |-> 0, committed |-> 0, lastRead |-> 0,
              overlapped |-> FALSE]

\* no concurrent request is made
RaceIdle ==
    /\ raceRow = NewMember(RaceUser)
    /\ raceProc = [w \in Workers |-> NoRaceRequest]
    /\ raceLog = NoRaceLog

\* the account as inserted: fail_count 0, not locked
RaceInit == RaceIdle

\* lines 133-155 of one request: the row is read, a locked account is
\* answered at once, the password is checked and the copy is updated
RaceRead(w) ==
    /\ raceProc[w].pc = "idle"
    /\ raceLog.sent < MaxRaceRequests
    /\ \E now \in Times :
          LET member == raceRow
          IN IF IsLocked(member)
             THEN /\ raceProc' = [raceProc EXCEPT ![w] =
                                     [NoRaceRequest EXCEPT !.resp = LockedResponse]]
                  /\ raceLog' = [raceLog EXCEPT !.sent = @ + 1]
             ELSE IF ~checkpw(RacePassword, member.password_hash)
             THEN /\ raceProc' = [raceProc EXCEPT ![w] =
                                     [pc |-> "commit", read |-> member,
                                      local |-> OnPasswordMismatch(member, now),
                                      resp |-> NoResponse]]
                  /\ raceLog' = [raceLog EXCEPT
                                    !.sent = @ + 1, !.checked = @ + 1,
                                    !.overlapped = @ \/ \E v \in Workers \ {w} :
                                                           raceProc[v].pc = "commit"]
             ELSE /\ raceProc' = [raceProc EXCEPT ![w] =
                                     [NoRaceRequest EXCEPT
                                         !.resp = SuccessResponse(RaceUser, now)]]
                  /\ raceLog' = [raceLog EXCEPT !.sent = @ + 1]
    /\ UNCHANGED raceRow

\* lines 156-160 of one request: the commit, then the 401
RaceCommit(w) ==
    /\ raceProc[w].pc = "commit"
    /\ raceRow' = CommitRow(raceRow, raceProc[w].read, raceProc[w].local)
    /\ raceProc' = [raceProc EXCEPT ![w] =
                       [NoRaceRequest EXCEPT !.resp = MismatchResponse(raceProc[w].local)]]
    /\ raceLog' = [raceLog EXCEPT !.committed = @ + 1,
                                  !.lastRead = raceProc[w].read.fail_count]

RaceStep(w) ==
    /\ RaceRead(w) \/ RaceCommit(w)
    /\ UNCHANGED <<loginVars, recVars, toolVars, ssotVars, uiVars>>

-----------------------------------------------------------------------------
(* generate_ssot_from_feature_spec.py: main, generate_artifact and the      *)
(* parsers and writers they use, on a small family of documents.            *)

\* the kinds in the order of main, and the file of each below
\* auto_features/<feature_id>/
ArtifactKinds == <<"api", "db_schema", "rules", "testcases", "validation">>
ArtifactFile ==
    [k \in {ArtifactKinds[i] : i \in 1..Len(ArtifactKinds)} |->
        IF k = "validation" THEN "validation_schema.json"
        ELSE IF k = "api" THEN "api.yaml"
        ELSE IF k = "db_schema" THEN "db_schema.yaml"
        ELSE IF k = "rules" THEN "rules.yaml"
        ELSE "testcases.yaml"]

\* parsed values: a mapping of one key, an integer, a string, None
MapData(key, val) == [kind |-> "map", key |-> key, val |-> val]
IntData(val) == [kind |-> "int", key |-> <<>>, val |-> val]
StrData(val) == [kind |-> "str", key |-> <<>>, val |-> val]
NoneData == [kind |-> "none", key |-> <<>>, val |-> <<>>]

\* the characters a..b of t are a non-empty run of characters of S
RunOf(t, a, b, S) == a <= b /\ \A i \in a..b : t[i] \in S

\* where t reads {"key": digits}: the closing quote and the first digit
JsonObjectAt(t) ==
    {p \in (3..Len(t)) \X (3..Len(t)) :
        /\ t[1] = "{" /\ t[2] = DoubleQuote
        /\ RunOf(t, 3, p[1] - 1, LowerChars)
        /\ t[p[1]] = DoubleQuote
        /\ p[1] + 1 <= Len(t) /\ t[p[1] + 1] = ":"
        /\ p[2] >= p[1] + 2
        /\ \A k \in (p[1] + 2)..(p[2] - 1) : t[k] = " "
        /\ RunOf(t, p[2], Len(t) - 1, DigitChars)
        /\ t[Len(t)] = "}"}

\* where t reads key: digits: the colon
BlockMappingAt(t) ==
    {i \in 2..Len(t) :
        /\ RunOf(t, 1, i - 1, LowerChars)
        /\ t[i] = ":"
        /\ i + 1 <= Len(t) /\ t[i + 1] = " "
        /\ RunOf(t, i + 2, Len(t), DigitChars)}

\* json.loads(cleaned): an object, a number, or JSONDecodeError
json_loads(t) ==
    IF JsonObjectAt(t) # {}
    THEN LET p == CHOOSE q \in JsonObjectAt(t) : TRUE
         IN [error |-> "", data |-> MapData(SubSeq(t, 3, p[1] - 1),
                                            SubSeq(t, p[2], Len(t) - 1))]
    ELSE IF RunOf(t, 1, Len(t), DigitChars) THEN [error |-> "", data |-> IntData(t)]
    ELSE [error |-> "JSONDecodeError", data |-> NoneData]

\* yaml.safe_load(cleaned): the empty document is None, a flow or block
\* mapping a dict, a run of digits an int, a word a str; a flow mapping that
\* is not closed and a text that starts with a backquote raise YAMLError
yaml_safe_load(t) ==
    IF t = <<>> THEN [error |-> "", data |-> NoneData]
    ELSE IF JsonObjectAt(t) # {} THEN json_loads(t)
    ELSE IF BlockMappingAt(t) # {}
    THEN LET i == CHOOSE j \in BlockMappingAt(t) : TRUE
         IN [error |-> "", data |-> MapData(SubSeq(t, 1, i - 1), SubSeq(t, i + 2, Len(t)))]
    ELSE IF RunOf(t, 1, Len(t), DigitChars) THEN [error |-> "", data |-> IntData(t)]
    ELSE IF RunOf(t, 1, Len(t), LowerChars \cup UpperChars)
    THEN [error |-> "", data |-> StrData(t)]
    ELSE [error |-> "YAMLError", data |-> NoneData]

DocumentEnd == <<".", ".", ".", "\n">>

\* yaml.safe_dump(data, allow_unicode=True, sort_keys=False)
yaml_safe_dump(data) ==
    IF data.kind = "map" THEN data.key \o <<":", " ">> \o data.val \o NL
    ELSE IF data.kind = "none" THEN <<"n", "u", "l", "l">> \o NL \o DocumentEnd
    ELSE data.val \o NL \o DocumentEnd

\* json.dumps(data, ensure_ascii=False, indent=2)
json_dumps(data) ==
    IF data.kind = "map"
    THEN <<"{", "\n", " ", " ", DoubleQuote>> \o data.key \o <<DoubleQuote, ":", " ">>
         \o data.val \o <<"\n", "}">>
    ELSE IF data.kind = "none" THEN <<"n", "u", "l", "l">>
    ELSE IF data.kind = "str" THEN <<DoubleQuote>> \o data.val \o <<DoubleQuote>>
    ELSE data.val

\* path.write_text(text): the file is created or replaced
ssot_write_text(fs, name, text) ==
    [f \in DOMAIN fs \cup {name} |-> IF f = name THEN text ELSE fs[f]]

save_yaml(fs, name, data) == ssot_write_text(fs, name, yaml_safe_dump(data))
save_json(fs, name, data) == ssot_write_text(fs, name, json_dumps(data))

\* the documents the generation service answers with
YamlDoc == <<"a", ":", " ", "1">>
JsonDoc == <<"{", DoubleQuote, "a", DoubleQuote, ":", " ", "1", "}">>
BrokenDoc == <<"{", "a">>
PlainDoc == <<"S", "o", "r", "r", "y">>
TagYaml == <<"y", "a", "m", "l">>
TagJson == <<"j", "s", "o", "n">>

\* the answers: no content, a document in a fenced block, alone, after
\* prose, or in a block that is not closed
SsotReplies ==
    {<<>>,
     <<Block(TagYaml, YamlDoc, TRUE)>>,
     <<Prose(ProseA), Block(TagJson, JsonDoc, TRUE)>>,
     <<Prose(YamlDoc)>>,
     <<Block(TagYaml, BrokenDoc, TRUE)>>,
     <<Prose(PlainDoc)>>,
     <<Block(TagYaml, YamlDoc, FALSE)>>}
SsotOutcomes ==
    {[ok |-> TRUE, segs |-> r] : r \in SsotReplies} \cup {[ok |-> FALSE, segs |-> <<>>]}

\* call_llm(system, prompt): resp.choices[0].message.content or "", or the
\* exception of the client
ssot_call_llm(out) ==
    IF out.ok THEN [error |-> "", raw |-> Render(out.segs)]
    ELSE [error |-> "APIError", raw |-> <<>>]

\* mutation: content that does not parse is kept as a string
ParseArtifact_Lenient(kind, cleaned) ==
    LET parsed == IF kind = "validation" THEN json_loads(cleaned)
                  ELSE yaml_safe_load(cleaned)
    IN IF parsed.error # "" THEN [error |-> "", data |-> StrData(cleaned)] ELSE parsed
\* lines 206-209: json.loads for the validation kind, yaml.safe_load otherwise
ParseArtifact(kind, cleaned) ==
    IF kind = "validation" THEN json_loads(cleaned) ELSE yaml_safe_load(cleaned)

\* generate_artifact(feature_id, spec, kind): call, extraction, parsing
generate_artifact(kind, out) ==
    LET resp == ssot_call_llm(out)
    IN IF resp.error # "" THEN [error |-> resp.error, data |-> NoneData]
       ELSE ParseArtifact(kind, extract_block(resp.raw))

\* mutation: main checks nothing before the first artifact
main_checks_None(in) == ""
\* main before the first artifact, and the import of the script before it:
\* OpenAI() needs the key (line 43), the feature spec must exist (219) and
\* load (225)
main_checks(in) ==
    IF ~in.hasKey THEN "OpenAIError"
    ELSE IF in.spec = "missing" THEN "FileNotFoundError"
    ELSE IF in.spec = "broken" THEN "YAMLError"
    ELSE ""

\* the five files as an earlier run left them
SsotFilesOfRun ==
    [f \in {ArtifactFile[k] : k \in DOMAIN ArtifactFile} |->
        IF f = ArtifactFile["validation"] THEN json_dumps(MapData(<<"b">>, <<"2">>))
        ELSE yaml_safe_dump(MapData(<<"b">>, <<"2">>))]

NoSsotRun == [pc |-> "idle", todo |-> <<>>, error |-> ""]
NoSsotLog == [calls |-> <<>>, written |-> <<>>]

\* the script is not run
SsotIdle ==
    /\ ssotIn = [hasKey |-> FALSE, spec |-> "missing", fs0 |-> <<>>]
    /\ ssotFs = <<>>
    /\ ssotRun = NoSsotRun
    /\ ssotLog = NoSsotLog

\* the environment of a run: the key set or not, the feature spec missing,
\* unreadable or good, the output directory empty or as an earlier run left it
SsotInit ==
    /\ \E hasKey \in BOOLEAN, spec \in {"missing", "broken", "ok"},
          fs0 \in {<<>>, SsotFilesOfRun} :
          /\ ssotIn = [hasKey |-> hasKey, spec |-> spec, fs0 |-> fs0]
          /\ ssotFs = fs0
    /\ ssotRun = NoSsotRun
    /\ ssotLog = NoSsotLog

\* main up to the first artifact (lines 216-228)
SsotStart ==
    /\ ssotRun.pc = "idle"
    /\ LET error == main_checks(ssotIn)
       IN ssotRun' = IF error # ""
                     THEN [pc |-> "failed", todo |-> <<>>, error |-> error]
                     ELSE [pc |-> "running", todo |-> ArtifactKinds, error |-> ""]
    /\ UNCHANGED <<ssotIn, ssotFs, ssotLog>>
    /\ UNCHANGED <<loginVars, recVars, toolVars, raceVars, uiVars>>

\* one artifact of main: generate_artifact, then save_yaml or save_json
\* (lines 231-253)
SsotArtifact ==
    /\ ssotRun.pc = "running"
    /\ \E out \in SsotOutcomes :
          LET kind == Head(ssotRun.todo)
              made == generate_artifact(kind, out)
              calls == Append(ssotLog.calls,
                              [kind |-> kind, ok |-> out.ok, segs |-> out.segs])
          IN IF made.error # ""
             THEN /\ ssotRun' = [ssotRun EXCEPT !.pc = "failed", !.error = made.error]
                  /\ ssotLog' = [ssotLog EXCEPT !.calls = calls]
                  /\ UNCHANGED ssotFs
             ELSE /\ ssotFs' = IF kind = "validation"
                               THEN save_json(ssotFs, ArtifactFile[kind], made.data)
                               ELSE save_yaml(ssotFs, ArtifactFile[kind], made.data)
                  /\ ssotLog' = [calls |-> calls, written |-> Append(ssotLog.written, kind)]
                  /\ ssotRun' = IF Len(ssotRun.todo) > 1
                                THEN [ssotRun EXCEPT !.todo = Tail(@)]
                                ELSE [ssotRun EXCEPT !.pc = "done", !.todo = <<>>]
    /\ UNCHANGED ssotIn
    /\ UNCHANGED <<loginVars, recVars, toolVars, raceVars, uiVars>>

-----------------------------------------------------------------------------
(* base/generated/login/ui/login_ui.py: the handler of /login, in front of  *)
(* the login API.                                                           *)

\* the messages the page shows (lines 260, 262, 264, 266 and 268)
FlashLoginFailed == "flash: login failed, check email and password"
FlashAccountLocked == "flash: the account is locked"
FlashUnknownError == "flash: unknown error"
FlashServerError == "flash: error talking to the server"
NoFlash == ""

\* EMAIL_REGEX.match(email): ^[^@]+@[^@]+\.[^@]+$
EMAIL_REGEX_match(v) ==
    /\ Cardinality(Positions(v, "@")) = 1
    /\ LET at == CHOOSE i \in Positions(v, "@") : TRUE
       IN /\ at > 1
          /\ \E dot \in (at + 2)..(Len(v) - 1) : v[dot] = "."

\* PASSWORD_REGEX.match(password): the lookaheads and .{8,} see the first
\* line only, and $ accepts one newline after it
PASSWORD_REGEX_match(v) ==
    LET breaks == Positions(v, Newline)
        line == IF breaks = {} THEN v ELSE SubSeq(v, 1, MinOf(breaks) - 1)
    IN /\ HasCharIn(line, UpperChars)
       /\ HasCharIn(line, LowerChars)
       /\ HasCharIn(line, DigitChars)
       /\ HasCharIn(line, SpecialChars)
       /\ Len(line) >= MinPasswordLen
       /\ Len(v) \in {Len(line), Len(line) + 1}

\* validate_email and validate_password of the page: the field in error
ui_validate_email(email) ==
    IF email = <<>> THEN {"email"}
    ELSE IF Len(email) > MaxEmailLen THEN {"email"}
    ELSE IF ~EMAIL_REGEX_match(email) THEN {"email"}
    ELSE {}
ui_validate_password(password) ==
    IF password = <<>> THEN {"password"}
    ELSE IF Len(password) < MinPasswordLen THEN {"password"}
    ELSE IF ~PASSWORD_REGEX_match(password) THEN {"password"}
    ELSE {}

\* data.get(key, default) on the JSON body of a response of the API:
\* LoginResponse has accessToken and userId, ErrorResponse has errorCode
data_get(resp, key, default) ==
    IF key = "errorCode" /\ resp.errorCode # "" THEN resp.errorCode
    ELSE IF key = "userId" /\ resp.userId # "" THEN resp.userId
    ELSE default

\* the forms posted to /login
PaddedUser1Email == <<" ">> \o User1Email \o <<" ">>
UiForms ==
    [email : {<<>>, User1Email, PaddedUser1Email, User2Email, NotFoundEmail, InvalidEmail},
     password : {<<>>, PassAtWord1, WrongPass1, ShortPassword, NoSpecialPassword}]

\* what requests.post meets
UiNetworkOutcomes == {"ok", "ConnectionError"}

UiResult(apiCalled, served, page, flash, errors) ==
    [called |-> TRUE, apiCalled |-> apiCalled, served |-> served, page |-> page,
     flash |-> flash, errors |-> errors]
NoUiResult ==
    [called |-> FALSE, apiCalled |-> FALSE, served |-> FALSE, page |-> "", flash |-> NoFlash,
     errors |-> {}]

\* login() on a POST (lines 233-270): the body sent to the API, if any, and
\* what the browser gets
ui_login(m, form, now, net) ==
    LET email == Strip(form.email)
        password == form.password
        errors == ui_validate_email(email) \cup ui_validate_password(password)
        body == Body(Str(email), Str(password))
    IN IF errors # {}
       THEN [body |-> body, ui |-> UiResult(FALSE, FALSE, "login", NoFlash, errors)]
       ELSE IF net # "ok"
       THEN [body |-> body, ui |-> UiResult(TRUE, FALSE, "login", FlashServerError, {})]
       ELSE LET resp == PostLogin(m, body, now).resp
            IN [body |-> body,
                ui |-> IF resp.status = 200
                       THEN IF data_get(resp, "result", "") = "success"
                            THEN UiResult(TRUE, TRUE, "home", NoFlash, {})
                            ELSE LET error_code == data_get(resp, "errorCode", "")
                                 IN IF error_code = FAIL_ERROR_CODE
                                    THEN UiResult(TRUE, TRUE, "login", FlashLoginFailed, {})
                                    ELSE IF error_code = LOCK_ERROR_CODE
                                    THEN UiResult(TRUE, TRUE, "login", FlashAccountLocked, {})
                                    ELSE UiResult(TRUE, TRUE, "login", FlashUnknownError, {})
                       ELSE UiResult(TRUE, TRUE, "login", FlashServerError, {})]

\* no form is posted
UiIdle == uiOut = NoUiResult

\* a browser posts a form to /login; the page calls the API, which serves
\* the request
UiLogin ==
    /\ \E form \in UiForms, now \in Times, net \in UiNetworkOutcomes :
          LET out == ui_login(members, form, now, net)
          IN /\ uiOut' = out.ui
             /\ IF out.ui.served
                THEN Serve(out.body, now)
                ELSE UNCHANGED <<members, membersBefore, lastReq, lastResp, wrongStreak>>
    /\ UNCHANGED <<suitePc, suiteLog>>
    /\ UNCHANGED <<recVars, toolVars, raceVars, ssotVars>>

SideIdle == RaceIdle /\ SsotIdle /\ UiIdle

-----------------------------------------------------------------------------
(* Specifications.                                                         *)

Init == LoginInit /\ RecommendInit /\ ExtractIdle /\ GenIdle /\ SideIdle

\* the login service
Next == Login \/ RunTest

Spec == Init /\ [][Next]_vars

\* the recommend service
NextRecommend == Recommend \/ Ask

SpecRecommend == Init /\ [][NextRecommend]_vars

\* the extractors, applied to a drawn response
InitExtract == LoginInit /\ RecommendInit /\ ExtractInit /\ GenIdle /\ SideIdle

NextExtract == ExtractCodeBlock \/ ExtractBlock

SpecExtract == InitExtract /\ [][NextExtract]_vars

\* one run of generate_all.py
InitGen == LoginInit /\ RecommendInit /\ ExtractIdle /\ GenInit /\ SideIdle

NextGen == GenStart \/ GenFeature \/ GenMode

SpecGen == InitGen /\ [][NextGen]_vars

\* wrong-password requests for one account, up to two in flight
InitRace == LoginInit /\ RecommendInit /\ ExtractIdle /\ GenIdle /\ RaceInit /\ SsotIdle /\ UiIdle

NextRace == \E w \in Workers : RaceStep(w)

SpecRace == InitRace /\ [][NextRace]_vars

\* one run of generate_ssot_from_feature_spec.py
InitSsot == LoginInit /\ RecommendInit /\ ExtractIdle /\ GenIdle /\ RaceIdle /\ SsotInit /\ UiIdle

NextSsot == SsotStart \/ SsotArtifact

SpecSsot == InitSsot /\ [][NextSsot]_vars

\* the login page in front of the login API
InitUi == Init

NextUi == UiLogin

SpecUi == InitUi /\ [][NextUi]_vars

-----------------------------------------------------------------------------
(* Properties of the login API.                                            *)

\* the email of the last request is well-formed and matches no account
UnknownEmail(body) == WellFormed(body) /\ Target(body) = {}

\* the body carries the password of account u
RightPasswordFor(body, u) ==
    /\ u \in Target(body)
    /\ body.password.val = AccountPassword[u]

LoginFailed401 == Response(401, "LOGIN_FAILED", NoToken, "")
AccountLocked401 == Response(401, "ACCOUNT_LOCKED", NoToken, "")

C3_SuccessResetsCounter ==
    \A u \in UserIds :
        /\ (lastReq.sent /\ RightPasswordFor(lastReq.body, u)
                /\ ~membersBefore[u].is_locked) =>
               members[u].fail_count = 0 /\ ~members[u].is_locked
        /\ members[u].is_locked => wrongStreak[u] >= MAX_FAIL_COUNT

C3_Witness ==
    /\ lastReq.sent
    /\ RightPasswordFor(lastReq.body, "U1")
    /\ membersBefore["U1"].fail_count = MAX_FAIL_COUNT - 1
    /\ members["U1"].fail_count = 0
    /\ lastResp.status = 200

\* what a test asserts about the response it receives
Asserted(test, resp) ==
    /\ resp.status = test.status
    /\ test.errorCode # "" => resp.errorCode = test.errorCode
    /\ test.status = 200 => resp.accessToken # NoToken /\ resp.userId # ""

\* C4: when login_test.py has run in file order from its precondition, every
\* response it received is the one its test asserts.
C4_SuitePassesInFileOrder ==
    suitePc = Len(Suite) =>
        \A i \in 1..Len(Suite) : Asserted(Suite[i], suiteLog[i])

EmailMalformed(body) ==
    body.email.kind = "str" /\ validate_email(body.email.val) # ""
PasswordMalformed(body) ==
    body.password.kind = "str" /\ validate_password(body.password.val) # ""

\* C7: a malformed password (with an acceptable email) is answered 400
\* INVALID_PASSWORD_FORMAT, a malformed email (with an acceptable password)
\* 400 INVALID_EMAIL_FORMAT, and neither changes the table.
C7_MalformedInput400 ==
    lastReq.sent =>
        /\ (PasswordMalformed(lastReq.body) /\ EmailErrors(lastReq.body) = {}) =>
               /\ lastResp = Response(400, "INVALID_PASSWORD_FORMAT", NoToken, "")
               /\ members = membersBefore
        /\ (EmailMalformed(lastReq.body) /\ PasswordErrors(lastReq.body) = {}) =>
               /\ lastResp = Response(400, "INVALID_EMAIL_FORMAT", NoToken, "")
               /\ members = membersBefore

\* C8: a request without the email key or without the password key is
\* answered 400 MISSING_REQUIRED_FIELD.
C8_MissingField400 ==
    (lastReq.sent /\
        (lastReq.body.email.kind = "absent" \/ lastReq.body.password.kind = "absent"))
    => lastResp = Response(400, "MISSING_REQUIRED_FIELD", NoToken, "")

-----------------------------------------------------------------------------
(* Properties of the /recommend endpoint.                                  *)

\* C10: a request without an Authorization header, or with one that does
\* not start with "Bearer ", is answered with status 401.
C10_NoBearerHeader401 ==
    (recReq.sent /\ (recReq.header.kind = "absent" \/ ~StartsWithBearer(recReq.header)))
    => recResp.status = 401

\* the token of a header that starts with "Bearer " fails verification: it is
\* no JWT, or its signature is not one of SECRET_KEY with ALGORITHM
BadSignature(tok) == ~tok.wellFormed \/ tok.key # SECRET_KEY \/ tok.alg # ALGORITHM

\* the token carries an exp claim that is not in the future
ExpiredAt(tok, now) == tok.exp # 0 /\ tok.exp <= now

\* the question of the last request passes QuestionRequest and the denylist
QuestionAccepted(field) ==
    /\ ValidatedQuestion[field].valid
    /\ ~detect_dangerous_pattern(ValidatedQuestion[field].question)

\* C11: for a request whose Authorization header starts with "Bearer ", an
\* expired token or a token whose signature does not verify is answered
\* with 401; a verified, unexpired token with a sub claim is never answered
\* with 401, every 200 response carries that sub as mbr_id, and the
\* response is 200 with that mbr_id whenever the question is accepted.
C11_BearerTokenVerified ==
    (recReq.sent /\ recReq.header.kind = "str" /\ StartsWithBearer(recReq.header)) =>
        LET tok == ExtractToken(recReq.header)
        IN /\ (BadSignature(tok) \/ ExpiredAt(tok, recReq.now)) => recResp.status = 401
           /\ (~BadSignature(tok) /\ ~ExpiredAt(tok, recReq.now) /\ tok.sub # "") =>
                 /\ recResp.status # 401
                 /\ recResp.status = 200 => recResp.mbr_id = tok.sub
                 /\ QuestionAccepted(recReq.question) =>
                        recResp.status = 200 /\ recResp.mbr_id = tok.sub

\* an unexpired token with an exp claim is accepted and its sub echoed
C11_Witness ==
    /\ recReq.sent
    /\ StartsWithBearer(recReq.header)
    /\ recReq.header.token.exp > recReq.now
    /\ ~BadSignature(recReq.header.token)
    /\ recResp.status = 200
    /\ recResp.mbr_id = "user456"

\* C12: every token the issuer of flask_client.py produces is signed with
\* SECRET_KEY and ALGORITHM and carries an expiry at which jwt.decode
\* rejects it as expired.
C12_IssuedTokenExpires ==
    (askResp.called /\ askResp.token # GarbageToken) =>
        /\ ~BadSignature(askResp.token)
        /\ askResp.token.exp # 0
        /\ jwt_decode(askResp.token, SECRET_KEY, ALGORITHM, askResp.token.exp).error
              = "ExpiredSignatureError"

\* a question matches the denylist: an SQL keyword as a word, or one of the
\* characters ; & | ` $
DenylistMatch(q) ==
    \/ \E kw \in SqlKeywords : \E i \in 1..Len(q) : KeywordAt(q, i, kw)
    \/ \E i \in 1..Len(q) : q[i] \in {";", "&", "|", Backquote, "$"}

\* the last request was authenticated
Authenticated ==
    /\ recReq.sent
    /\ recReq.header.kind = "str"
    /\ get_current_user(recReq.header, recReq.now).status = 200

\* C13 as stated: a 200 response only for a stripped question of length
\* 1..300 made of allow-listed characters that matches no denylist pattern,
\* echoed as validated; every question that matches a denylist pattern is
\* rejected with 400.
C13_DenylistMatch400 ==
    (Authenticated /\ recReq.question.kind = "str") =>
        LET v == Strip(recReq.question.val)
        IN /\ recResp.status = 200 =>
                 /\ Len(v) \in MinQuestionLen..MaxQuestionLen
                 /\ \A i \in 1..Len(v) : v[i] \in SafeChars
                 /\ ~DenylistMatch(v)
                 /\ recResp.question = v
           /\ DenylistMatch(v) => recResp.status = 400

\* C13 (amended): a 200 response only for a stripped question of length
\* 1..300 made of allow-listed characters that matches no denylist pattern,
\* echoed as validated; an authenticated request whose question passes the
\* length and allow-list validation and matches a denylist pattern is
\* rejected with 400, and one whose question holds a character outside the
\* allow-list (among them ; | ` $) is rejected by the validation with 422,
\* denylist match or not.
C13_ValidatedDenylistMatch400 ==
    /\ recResp.status = 200 =>
          /\ recReq.question.kind = "str"
          /\ LET v == Strip(recReq.question.val)
             IN /\ Len(v) \in MinQuestionLen..MaxQuestionLen
                /\ \A i \in 1..Len(v) : v[i] \in SafeChars
                /\ ~DenylistMatch(v)
                /\ recResp.question = v
    /\ (Authenticated /\ recReq.question.kind = "str") =>
          LET v == Strip(recReq.question.val)
              validated == /\ Len(v) \in MinQuestionLen..MaxQuestionLen
                           /\ \A i \in 1..Len(v) : v[i] \in SafeChars
          IN /\ (validated /\ DenylistMatch(v)) => recResp.status = 400
             /\ ~validated => recResp.status = 422

\* a padded question is answered with 200 and echoed stripped
C13_Witness ==
    /\ Authenticated
    /\ recReq.question = Str(Q_Padded)
    /\ recResp.status = 200
    /\ recResp.question = Strip(Q_Padded)
    /\ recResp.question # Q_Padded

-----------------------------------------------------------------------------
(* Properties of the extractors.                                           *)

\* the closed blocks of a response whose tag is the language
TaggedBlocks(segs, language) ==
    {i \in 1..Len(segs) : /\ segs[i].kind = "block"
                          /\ segs[i].closed
                          /\ segs[i].tag = language}

\* C14: for a response that contains a closed fenced block tagged with the
\* expected language, extract_code_block(text, language) returns the trimmed
\* interior of the first such block, whatever surrounds it.
C14_FirstTaggedBlock ==
    (/\ exOut.codeDone
     /\ exReq.language # NoLanguage
     /\ TaggedBlocks(exReq.segs, exReq.language) # {}) =>
        exOut.code =
            Strip(exReq.segs[MinOf(TaggedBlocks(exReq.segs, exReq.language))].body)

\* C15: for a response without a fenced block, extract_code_block (with or
\* without a language) and extract_block return the whole response without
\* its leading and trailing whitespace.
C15_FallbackWholeResponse ==
    (\A i \in 1..Len(exReq.segs) : exReq.segs[i].kind = "prose") =>
        /\ exOut.codeDone => exOut.code = Strip(Render(exReq.segs))
        /\ exOut.blockDone => exOut.block = Strip(Render(exReq.segs))

\* prose with whitespace around it went through both extractors
C15_Witness ==
    /\ exReq.segs = <<Prose(ProseB), Prose(ProseB)>>
    /\ exReq.language = LangPython
    /\ exOut.codeDone /\ exOut.blockDone
    /\ exOut.code = exOut.block
    /\ exOut.code # <<>>
    /\ exOut.code # Render(exReq.segs)

-----------------------------------------------------------------------------
(* Properties of the generator.                                            *)

\* C16: regenerating a (feature, mode) pair with the response of the earlier
\* run leaves its file at the same path with the same content.
C16_RegenerationIdempotent ==
    \A i \in 1..Len(genLog.done) :
        LET e == genLog.done[i]
        IN (genIn.prior # <<>> /\ e.raw = genIn.prior[1]) =>
              /\ e.path \in DOMAIN genIn.fs0.files
              /\ e.path \in DOMAIN genFs.files
              /\ genFs.files[e.path] = genIn.fs0.files[e.path]

\* one file regenerated with the same response and unchanged, another
\* regenerated with a different response and changed
C16_Witness ==
    /\ genIn.prior # <<>>
    /\ \E i, j \in 1..Len(genLog.done) :
          /\ genLog.done[i].raw = genIn.prior[1]
          /\ genFs.files[genLog.done[i].path] = genIn.fs0.files[genLog.done[i].path]
          /\ genFs.files[genLog.done[i].path] # <<>>
          /\ genLog.done[j].raw # genIn.prior[1]
          /\ genFs.files[genLog.done[j].path] # genIn.fs0.files[genLog.done[j].path]

\* C17: a run for a feature identifier that is no key of the features
\* mapping of the index ends with KeyError at the lookup, makes no
\* generation call and leaves every file and directory as it was.
C17_UnknownFeatureWritesNothing ==
    (/\ genRun.pc # "idle"
     /\ ~genRun.args.all
     /\ genRun.args.feature # NoFeature
     /\ genIn.index.loadable
     /\ genRun.args.feature \notin DOMAIN genIn.index.cfgs) =>
        /\ genRun.pc \in {"running", "failed"}
        /\ genRun.pc = "running" => ~genRun.loaded
        /\ genRun.pc = "failed" => genRun.error = "KeyError"
        /\ genLog = NoLog
        /\ genFs = genIn.fs0

\* the run for a feature the index does not list has failed, with the files
\* of an earlier run around it
C17_Witness ==
    /\ genRun.pc = "failed"
    /\ genRun.error = "KeyError"
    /\ genRun.args.feature = "ghost"
    /\ "login" \in DOMAIN genIn.index.cfgs
    /\ genIn.fs0 # NoFiles
    /\ genFs = genIn.fs0
    /\ genLog.calls = <<>>

\* C18 as stated: every artifact is written to
\* <feature-id>/<kind>/<feature-id>_<kind>.<ext> below the output root.
C18_PathPattern ==
    \A i \in 1..Len(genLog.done) :
        LET e == genLog.done[i]
        IN /\ e.path.feature = e.feature
           /\ e.path.kind = e.mode
           /\ e.path.name = <<e.feature, "_", e.mode>>

\* C18 (amended): api, ui and test artifacts are written to
\* <feature-id>/<kind>/<feature-id>_<kind>.py and the db artifact to
\* <feature-id>/db/<feature-id>_schema.sql, a function of (feature-id, kind)
\* only; the file and its directory exist after the write.
C18_PathPatternDbSchema ==
    \A i \in 1..Len(genLog.done) :
        LET e == genLog.done[i]
        IN /\ e.path.feature = e.feature
           /\ e.path.kind = e.mode
           /\ e.mode \in {"api", "ui", "test"} =>
                 e.path.name = <<e.feature, "_", e.mode>> /\ e.path.ext = "py"
           /\ e.mode = "db" =>
                 e.path.name = <<e.feature, "_", "schema">> /\ e.path.ext = "sql"
           /\ e.path \in DOMAIN genFs.files
           /\ <<e.feature, e.mode>> \in genFs.dirs

\* a run wrote the api and the db artifact of signup
C18_Witness ==
    \E i, j \in 1..Len(genLog.done) :
        /\ genLog.done[i].feature = "signup" /\ genLog.done[i].mode = "api"
        /\ genLog.done[j].feature = "signup" /\ genLog.done[j].mode = "db"
        /\ genLog.done[j].path \in DOMAIN genFs.files

\* the pairs a command line asks for, feature by feature, each feature's
\* modes in the order api, ui, test, db
PairsOf(features, modes) ==
    LET ms == SelectSeq(<<"api", "ui", "test", "db">>, LAMBDA m : m \in modes)
    IN [k \in 1..(Len(features) * Len(ms)) |->
          <<features[((k - 1) \div Len(ms)) + 1], ms[((k - 1) % Len(ms)) + 1]>>]

IsPrefix(a, b) == Len(a) <= Len(b) /\ \A i \in 1..Len(a) : a[i] = b[i]

\* the pairs whose file this run has written, in order
DonePairs == [i \in 1..Len(genLog.done) |-> <<genLog.done[i].feature, genLog.done[i].mode>>]

\* C19: the driver enters the requested (feature, mode) pairs one after the
\* other, each at most once and all of them when it ends normally; a pair
\* that fails ends the run, no later pair is entered, and the files of the
\* pairs completed before it stay as written.
C19_SequentialStopAtFirstError ==
    LET requested == PairsOf(genRun.planned, genRun.args.modes)
    IN /\ IsPrefix(genLog.tried, requested)
       /\ IsPrefix(DonePairs, genLog.tried)
       /\ Len(genLog.done) >= Len(genLog.tried) - 1
       /\ Len(genLog.done) < Len(genLog.tried) => genRun.pc = "failed"
       /\ Len(genLog.calls) <= Len(genLog.tried)
       /\ genRun.pc = "done" => DonePairs = requested
       /\ \A i \in 1..Len(genLog.done) :
             /\ genLog.done[i].path \in DOMAIN genFs.files
             /\ genFs.files[genLog.done[i].path] = genLog.done[i].content

\* a run over two features failed at a generation call in the second
\* feature, after at least two files
C19_Witness ==
    /\ genRun.pc = "failed"
    /\ genRun.error = "APIError"
    /\ Len(genRun.planned) = 2
    /\ Len(genLog.done) >= 2
    /\ Len(genLog.tried) = Len(genLog.done) + 1
    /\ genLog.tried[Len(genLog.tried)][1] = "signup"
    /\ Len(genLog.tried) < Len(PairsOf(genRun.planned, genRun.args.modes))

\* the keys each mode reads with cfg[...]
RequiredKeys ==
    [api |-> {"prompts.api", "api_spec", "rules", "validation", "db_schema", "testcases"},
     ui |-> {"prompts.ui", "rules", "validation"},
     test |-> {"prompts.test", "api_spec", "testcases", "validation", "rules"},
     db |-> {"prompts.db", "db_schema", "rules"}]

\* the keys of the design block, which generate_ui reads when present, and
\* the placeholder each fills
DesignKeys == {"design.components", "design.flow", "design.tokens"}
DesignPlaceholder ==
    [ph \in {"components", "flow", "tokens"} |->
        IF ph = "components" THEN "design.components"
        ELSE IF ph = "flow" THEN "design.flow" ELSE "design.tokens"]

\* the pair made a generation call, or has a file from this run
Generated(f, mode) ==
    \/ \E c \in 1..Len(genLog.calls) :
          genLog.calls[c].feature = f /\ genLog.calls[c].mode = mode
    \/ \E d \in 1..Len(genLog.done) :
          genLog.done[d].feature = f /\ genLog.done[d].mode = mode

\* C20 as stated: a mode whose Feature Config lacks a key the mode reads
\* (prompt template, declared document or design document) fails before
\* any generation call or file write, and no prompt holds an empty value in
\* place of an input.
C20_MissingKeyFails ==
    /\ \A i \in 1..Len(genLog.tried) :
          LET f == genLog.tried[i][1]
              mode == genLog.tried[i][2]
              reads == RequiredKeys[mode] \cup (IF mode = "ui" THEN DesignKeys ELSE {})
          IN (\E k \in reads : k \notin genIn.index.cfgs[f].keys) =>
                /\ ~Generated(f, mode)
                /\ genRun.pc = "failed"
                /\ i = Len(genLog.tried)
    /\ \A c \in 1..Len(genLog.calls) :
          \A ph \in DOMAIN genLog.calls[c].prompt : genLog.calls[c].prompt[ph] # <<>>

\* C20 (amended): a mode whose Feature Config lacks its prompt template
\* path or one of the documents it reads with cfg[...] fails with KeyError
\* before any generation call or file write; the design documents of the ui
\* mode are the exception: an absent one is replaced by the empty string,
\* and generate_ui goes on to its generation call.
C20_MissingRequiredKeyFails ==
    /\ \A i \in 1..Len(genLog.tried) :
          LET f == genLog.tried[i][1]
              mode == genLog.tried[i][2]
              cfg == genIn.index.cfgs[f]
          IN /\ (\E k \in RequiredKeys[mode] : k \notin cfg.keys) =>
                   /\ ~Generated(f, mode)
                   /\ genRun.pc = "failed"
                   /\ genRun.error = "KeyError"
                   /\ i = Len(genLog.tried)
             /\ (/\ mode = "ui"
                 /\ [cfg EXCEPT !.keys = @ \cup DesignKeys] = FullCfg) =>
                   \E c \in 1..Len(genLog.calls) :
                       /\ genLog.calls[c].feature = f
                       /\ genLog.calls[c].mode = "ui"
                       /\ \A ph \in {"components", "flow", "tokens"} :
                             genLog.calls[c].prompt[ph] = <<>>
                                <=> DesignPlaceholder[ph] \notin cfg.keys
    /\ \A c \in 1..Len(genLog.calls) :
          \A ph \in DOMAIN genLog.calls[c].prompt :
              genLog.calls[c].prompt[ph] = <<>> =>
                 /\ genLog.calls[c].mode = "ui"
                 /\ ph \in {"components", "flow", "tokens"}
                 /\ DesignPlaceholder[ph] \notin genIn.index.cfgs[genLog.calls[c].feature].keys

\* the ui mode wrote its file, then the test mode failed for want of the
\* testcases key, without a generation call
C20_Witness ==
    /\ genRun.pc = "failed"
    /\ genRun.error = "KeyError"
    /\ genLog.tried = <<<<"login", "ui">>, <<"login", "test">>>>
    /\ "testcases" \notin genIn.index.cfgs["login"].keys
    /\ Len(genLog.done) = 1
    /\ Len(genLog.calls) = 1

\* the keyword arguments each mode passes to prompt_tpl.format
FormatArguments ==
    [api |-> {"feature_id", "api_spec", "rules", "validation_schema", "db_schema", "testcases"},
     ui |-> {"feature_id", "components", "flow", "tokens", "rules", "validation_schema"},
     test |-> {"feature_id", "api_spec", "testcases", "validation_schema", "rules"},
     db |-> {"feature_id", "db_schema", "rules"}]

\* C21: a mode whose prompt template names a placeholder the mode passes no
\* value for fails while rendering the prompt; for that artifact no
\* generation call is made and no file is written.
C21_UnsuppliedPlaceholderFails ==
    \A i \in 1..Len(genLog.tried) :
        LET f == genLog.tried[i][1]
            mode == genLog.tried[i][2]
        IN ~(genIn.index.cfgs[f].tpl[mode] \subseteq FormatArguments[mode]) =>
              /\ ~Generated(f, mode)
              /\ OutPath(f, mode) \in DOMAIN genFs.files =>
                    /\ OutPath(f, mode) \in DOMAIN genIn.fs0.files
                    /\ genFs.files[OutPath(f, mode)] = genIn.fs0.files[OutPath(f, mode)]
              /\ genRun.pc = "failed"
              /\ genRun.error = "KeyError"
              /\ i = Len(genLog.tried)

\* the api mode wrote its file, then the db mode failed on a template that
\* names {testcases}
C21_Witness ==
    /\ genRun.pc = "failed"
    /\ genRun.error = "KeyError"
    /\ genLog.tried = <<<<"login", "api">>, <<"login", "db">>>>
    /\ "testcases" \in genIn.index.cfgs["login"].tpl["db"]
    /\ Len(genLog.calls) = 1
    /\ Len(genLog.done) = 1

\* the file of a pair is as the earlier runs left it
Untouched(path) ==
    IF path \in DOMAIN genIn.fs0.files
    THEN path \in DOMAIN genFs.files /\ genFs.files[path] = genIn.fs0.files[path]
    ELSE path \notin DOMAIN genFs.files

\* C23: every pair makes at most one generation call; a call that fails ends
\* the run with its exception and writes no file for its pair, and the file
\* of every other pair is as this run wrote it before the failure or as the
\* earlier runs left it.
C23_FailedCallWritesNothing ==
    /\ \A c, d \in 1..Len(genLog.calls) :
          (genLog.calls[c].feature = genLog.calls[d].feature
           /\ genLog.calls[c].mode = genLog.calls[d].mode) => c = d
    /\ \A c \in 1..Len(genLog.calls) :
          ~genLog.calls[c].ok =>
             /\ c = Len(genLog.calls)
             /\ genRun.pc = "failed"
             /\ genRun.error = "APIError"
             /\ Untouched(OutPath(genLog.calls[c].feature, genLog.calls[c].mode))
             /\ \A d \in 1..Len(genLog.done) :
                   /\ genLog.done[d].path \in DOMAIN genFs.files
                   /\ genFs.files[genLog.done[d].path] = genLog.done[d].content
             /\ \A p \in DOMAIN genFs.files \cup DOMAIN genIn.fs0.files :
                   (\A d \in 1..Len(genLog.done) : genLog.done[d].path # p) => Untouched(p)

\* the call for the ui artifact of signup failed after three files, over
\* the files of an earlier run
C23_Witness ==
    /\ genRun.pc = "failed"
    /\ genRun.error = "APIError"
    /\ genIn.prior # <<>>
    /\ Len(genLog.done) = 3
    /\ Len(genLog.calls) = 4
    /\ ~genLog.calls[4].ok
    /\ genLog.calls[4].feature = "signup"
    /\ genLog.done[1].raw # genIn.prior[1]

\* the blocks of a response, closed or not
BlocksOf(segs) == {i \in 1..Len(segs) : segs[i].kind = "block"}

\* C29: given a language, a response with fenced blocks none of whose tags
\* starts with the language is returned whole and trimmed, fence markers
\* included; and a block matches only when its tag equals the language, so
\* the same holds when no tag equals it (python3 is no match for python).
C29_ExactTagMatch ==
    (/\ exOut.codeDone
     /\ exReq.language # NoLanguage
     /\ BlocksOf(exReq.segs) # {}) =>
        /\ (\A i \in BlocksOf(exReq.segs) :
               ~PrefixAt(exReq.segs[i].tag, 1, exReq.language)) =>
              exOut.code = Strip(Render(exReq.segs))
        /\ (\A i \in BlocksOf(exReq.segs) : exReq.segs[i].tag # exReq.language) =>
              exOut.code = Strip(Render(exReq.segs))

-----------------------------------------------------------------------------
(* Properties of the login API: invariants and frame.                      *)

\* C26: under sequential login requests, from accounts with fail_count 0
\* that are not locked, every account always has 0 <= fail_count <= 5, is
\* locked exactly when fail_count = 5, and has locked_at set exactly when it
\* is locked.
C26_CounterAndLockInvariant ==
    \A u \in UserIds :
        /\ members[u].fail_count \in 0..5
        /\ members[u].is_locked <=> members[u].fail_count = 5
        /\ members[u].locked_at # NULL <=> members[u].is_locked

\* an account is locked, another has failures and is not
C26_Witness ==
    /\ members["U1"].fail_count = 5
    /\ members["U1"].is_locked
    /\ members["U1"].locked_at # NULL
    /\ members["U2"].fail_count \in 1..4
    /\ ~members["U2"].is_locked
    /\ members["U2"].locked_at = NULL

\* C27: a login request that ends in a validation error, in LOGIN_FAILED
\* for an unknown email or in ACCOUNT_LOCKED for an account that was already
\* locked leaves every account record unchanged, and every login request
\* changes at most the record of the account whose email it names.
C27_FrameOfLogin ==
    lastReq.sent =>
        /\ (\/ ~WellFormed(lastReq.body)
            \/ UnknownEmail(lastReq.body)
            \/ \E u \in UserIds : /\ lastReq.body.email.kind = "str"
                                  /\ lastReq.body.email.val = AccountEmail[u]
                                  /\ WellFormed(lastReq.body)
                                  /\ membersBefore[u].is_locked)
              => members = membersBefore
        /\ \A u \in UserIds :
              members[u] # membersBefore[u] =>
                 /\ lastReq.body.email.kind = "str"
                 /\ lastReq.body.email.val = AccountEmail[u]

\* a request for an unknown email was answered LOGIN_FAILED while an
\* account had failures, and a request for a locked account ACCOUNT_LOCKED
C27_Witness ==
    /\ lastReq.sent
    /\ UnknownEmail(lastReq.body)
    /\ lastResp = LoginFailed401
    /\ members = membersBefore
    /\ members["U1"].is_locked
    /\ members["U2"].fail_count > 0
-----------------------------------------------------------------------------
(* Properties of the error answers of the demonstration services.           *)

\* C24: the body of a 500 answer does not depend on the exception behind it:
\* two calls of /ask that both end in a 500 carry the same body, whichever
\* exception requests.post raised in each.
C24_ErrorBodyIndependentOfException ==
    [][(askResp.status = 500 /\ askResp'.status = 500)
          => askResp'.error = askResp.error]_vars
-----------------------------------------------------------------------------
(* Properties of login_api under concurrent requests.                       *)

\* C25: the failure counter is updated by an unguarded read-increment-commit:
\* a commit stores the counter its own request read plus one, whatever was
\* committed in between, so the stored counter never exceeds the failed
\* attempts committed and equals them when no two requests overlapped.
C25_UnguardedReadIncrementCommit ==
    /\ raceLog.committed > 0 => raceRow.fail_count = raceLog.lastRead + 1
    /\ raceRow.fail_count <= raceLog.committed
    /\ ~raceLog.overlapped => raceRow.fail_count = raceLog.committed

\* a lost update: more than five wrong passwords were checked and counted,
\* and the account is not locked
C25_Witness ==
    /\ raceLog.overlapped
    /\ raceLog.checked > MAX_FAIL_COUNT
    /\ raceLog.committed = raceLog.checked
    /\ raceRow.fail_count < raceLog.committed
    /\ ~raceRow.is_locked
-----------------------------------------------------------------------------
(* Properties of generate_ssot_from_feature_spec.py.                        *)

\* the answers whose extracted content is not a YAML document, not a JSON one
NotYamlReplies == {<<Block(TagYaml, BrokenDoc, TRUE)>>, <<Block(TagYaml, YamlDoc, FALSE)>>}
NotJsonReplies == SsotReplies \ {<<Prose(ProseA), Block(TagJson, JsonDoc, TRUE)>>}

\* the call was answered, and its content does not parse for its kind
ParseFails(call) ==
    /\ call.ok
    /\ IF call.kind = "validation" THEN call.segs \in NotJsonReplies
       ELSE call.segs \in NotYamlReplies

\* the file is as it was before the run: still absent, or with the same text
SameFile(name) ==
    IF name \in DOMAIN ssotIn.fs0
    THEN name \in DOMAIN ssotFs /\ ssotFs[name] = ssotIn.fs0[name]
    ELSE name \notin DOMAIN ssotFs

\* C22: when the extracted content of an artifact does not parse as YAML
\* (as JSON for the validation kind), the run ends with the parsing error
\* and the file of that artifact is neither created nor modified.
C22_ParseFailureWritesNothing ==
    \A i \in 1..Len(ssotLog.calls) :
        ParseFails(ssotLog.calls[i]) =>
            /\ i = Len(ssotLog.calls)
            /\ ssotRun.pc = "failed"
            /\ ssotRun.error = (IF ssotLog.calls[i].kind = "validation"
                                THEN "JSONDecodeError" ELSE "YAMLError")
            /\ \A j \in 1..Len(ssotLog.written) :
                  ssotLog.written[j] # ssotLog.calls[i].kind
            /\ SameFile(ArtifactFile[ssotLog.calls[i].kind])

\* rules.yaml of an earlier run is kept when the new content does not parse
C22_Witness ==
    /\ ssotRun.pc = "failed" /\ ssotRun.error = "YAMLError"
    /\ Len(ssotLog.calls) = 3 /\ ParseFails(ssotLog.calls[3])
    /\ ssotLog.written = <<"api", "db_schema">>
    /\ ssotIn.fs0 = SsotFilesOfRun
    /\ ssotFs["rules.yaml"] = ssotIn.fs0["rules.yaml"]
    /\ ssotFs["api.yaml"] # ssotIn.fs0["api.yaml"]

\* the kinds of the generation calls made, in order
CallKinds == [i \in 1..Len(ssotLog.calls) |-> ssotLog.calls[i].kind]

\* C28: main produces api, db_schema, rules, testcases, validation in this
\* order and writes each file right after its own generation; when the run
\* fails at kind k exactly the files of the kinds before k have been written
\* and none of k or later; a missing feature spec or credential fails the
\* run before any generation call and any write.
C28_FixedOrderWriteAfterGeneration ==
    /\ IsPrefix(CallKinds, ArtifactKinds)
    /\ IsPrefix(ssotLog.written, ArtifactKinds)
    /\ Len(ssotLog.calls) - Len(ssotLog.written) \in {0, 1}
    /\ ssotRun.pc # "failed" => Len(ssotLog.calls) = Len(ssotLog.written)
    /\ ssotRun.pc = "done" => ssotLog.written = ArtifactKinds
    /\ (ssotRun.pc = "failed" /\ ssotRun.todo # <<>>) =>
          /\ Len(ssotLog.written) < Len(ArtifactKinds)
          /\ Head(ssotRun.todo) = ArtifactKinds[Len(ssotLog.written) + 1]
          /\ Len(ssotLog.calls) = Len(ssotLog.written) + 1
    /\ \A i \in 1..Len(ArtifactKinds) :
          IF i <= Len(ssotLog.written)
          THEN /\ ArtifactFile[ArtifactKinds[i]] \in DOMAIN ssotFs
               /\ ssotFs[ArtifactFile[ArtifactKinds[i]]]
                     # SsotFilesOfRun[ArtifactFile[ArtifactKinds[i]]]
          ELSE SameFile(ArtifactFile[ArtifactKinds[i]])
    /\ (ssotRun.pc # "idle" /\ (~ssotIn.hasKey \/ ssotIn.spec = "missing")) =>
          /\ ssotRun.pc = "failed"
          /\ ssotLog.calls = <<>>
          /\ ssotFs = ssotIn.fs0

\* the call for testcases failed: the three files before it are there, and
\* no other
C28_Witness ==
    /\ ssotRun.pc = "failed" /\ ssotRun.error = "APIError"
    /\ Head(ssotRun.todo) = "testcases"
    /\ ssotIn.fs0 = <<>>
    /\ DOMAIN ssotFs = {"api.yaml", "db_schema.yaml", "rules.yaml"}
-----------------------------------------------------------------------------
(* Properties of the login page in front of the login API.                  *)

\* C30: the page and the API agree on the response protocol: the page calls
\* the API only with an email and a password that passed its own validation;
\* when the API accepts the credentials (200 with accessToken and userId)
\* the page redirects to the home page; when the API answers 401 with
\* LOGIN_FAILED or ACCOUNT_LOCKED the page shows the message of that code.
C30_UiFollowsApiProtocol ==
    uiOut.called =>
        /\ uiOut.apiCalled => uiOut.errors = {}
        /\ uiOut.served =>
              /\ (lastResp.status = 200 /\ lastResp.accessToken # NoToken
                  /\ lastResp.userId # "") => uiOut.page = "home"
              /\ (lastResp.status = 401 /\ lastResp.errorCode = FAIL_ERROR_CODE)
                    => uiOut.flash = FlashLoginFailed
              /\ (lastResp.status = 401 /\ lastResp.errorCode = LOCK_ERROR_CODE)
                    => uiOut.flash = FlashAccountLocked

====
